---- MODULE Spec2Model ----
(***************************************************************************)
(* MixSplitR: the multi-backend identification and result-merging          *)
(* pipeline (mixsplitr_identify.py, mixsplitr_processing.py,               *)
(* mixsplitr_core.py, mixsplitr.py).                                       *)
(*                                                                         *)
(* Encoding of Python values:                                              *)
(*   - an optional value is a set with at most one element: None is {} and *)
(*     a present value v is {v};                                           *)
(*   - a str is a sequence of one-character strings when its characters    *)
(*     matter (artist, title, genre) and a sequence of tokens otherwise    *)
(*     (<<"Unknown Album">>); the empty str is <<>>;                       *)
(*   - a confidence is an integer number of thousandths (0.90 is 900).     *)
(***************************************************************************)
EXTENDS Integers, Sequences, FiniteSets, TLC

VARIABLES
    \* strings_match exercised on its own
    s1, s2, verdict, last_edit,
    \* merge_identification_results: its four arguments and its result, and,
    \* when it is exercised on its own, the sources not yet passed to it
    acr_result, mb_result, mb_enhanced, external_meta, withheld, merged, mpc,
    \* one run of main over one chunk: the configuration and the installed
    \* libraries, main's position and locals, the worker's locals, the calls
    \* made so far, the temporary files on disk, and how the worker's call ended
    config, env, pc, current_mode, recognizer, ACOUSTID_API_KEY, existing_tracks,
    chunk, loc, calls, files, result, exc,
    \* what detect_bpm_librosa finds in the chunk
    chunk_tempo,
    \* a function exercised on its own: its arguments, what it returned, and
    \* whether it was called yet
    args, ret, fpc,
    \* worker threads of one process: each thread's position and locals; the
    \* module flag _default_key_warning_shown of mixsplitr_identify and what
    \* the calls did that is visible outside; the shared RateLimiter's lock and
    \* last_request, the time, and when each wait() stamped and returned
    tpc, tlocal, default_key_warning_shown, effects,
    lock, last_request, clock, stamps, returns

matchVars == <<s1, s2, verdict, last_edit>>
mergeVars == <<acr_result, mb_result, mb_enhanced, external_meta, withheld, merged, mpc>>
runVars == <<config, env, pc, current_mode, recognizer, ACOUSTID_API_KEY, existing_tracks,
             chunk, loc, calls, files, result, exc, chunk_tempo>>
callVars == <<args, ret, fpc>>
threadVars == <<tpc, tlocal, default_key_warning_shown, effects,
                lock, last_request, clock, stamps, returns>>
vars == <<s1, s2, verdict, last_edit,
          acr_result, mb_result, mb_enhanced, external_meta, withheld, merged, mpc,
          config, env, pc, current_mode, recognizer, ACOUSTID_API_KEY, existing_tracks,
          chunk, loc, calls, files, result, exc, chunk_tempo,
          args, ret, fpc,
          tpc, tlocal, default_key_warning_shown, effects,
          lock, last_request, clock, stamps, returns>>

-----------------------------------------------------------------------------
(* Python values *)

None == {}
Some(v) == {v}
Val(o) == CHOOSE v \in o : TRUE

\* bool(x) of an optional str or list: None and the empty one are falsy
Truthy(o) == o # None /\ Val(o) # <<>>
\* bool(x) of an optional number: None and 0 are falsy
TruthyNum(o) == o # None /\ Val(o) # 0

Min(a, b) == IF a < b THEN a ELSE b

-----------------------------------------------------------------------------
(* Characters and str.lower() *)

LowerLetters == {"a"}
UpperLetters == {"A"}
Digits == {"1"}
Punctuation == {"-", " "}
Chars == LowerLetters \cup UpperLetters \cup Digits \cup Punctuation

\* one character of str.lower()
ToLower(c) == IF c = "A" THEN "a" ELSE c
\* one character of str.upper()
ToUpper(c) == IF c = "a" THEN "A" ELSE c

\* str(s).lower()
StrLower(s) == [i \in 1..Len(s) |-> ToLower(s[i])]

\* the characters the pattern [^a-z0-9] leaves in place
IsLowerAlnum(c) == c \in LowerLetters \cup Digits

-----------------------------------------------------------------------------
(* strings_match: mixsplitr_identify.py 935-943 *)

\* the comparison with .lower() forgotten
normalize_no_lower(s) == SelectSeq(s, IsLowerAlnum)

\* re.sub(r'[^a-z0-9]', '', str(s).lower())
normalize(s) == SelectSeq(StrLower(s), IsLowerAlnum)

strings_match(a, b) ==
    IF ~Truthy(a) \/ ~Truthy(b) THEN FALSE
    ELSE normalize(Val(a)) = normalize(Val(b))

-----------------------------------------------------------------------------
(* merge_identification_results: mixsplitr_identify.py 946-1138 *)

\* confidences, in thousandths
ConfFull == 900
ConfPartial == 750
ConfConflict == 600
ConfAcrOnly == 750
ConfMbOnly == 700
StepBoth == 25
StepSingle == 50
ConfCap == 990
GenreCap == 5

Field(v, src) == [value |-> v, source |-> src]
NoBpm == [value |-> None, source |-> None, confidence |-> None]

\* the record merge_identification_results starts from
EmptyMerged ==
    [artist |-> Field(None, None), title |-> Field(None, None),
     album |-> Field(None, None), label |-> Field(None, None),
     genres |-> Field(<<>>, None), release_date |-> Field(None, None),
     isrc |-> Field(None, None), bpm |-> NoBpm,
     confidence |-> 0, agreement |-> "none",
     sources_used |-> <<>>, sources_checked |-> 0]

\* d.get(k) if d else None, and (d.get(k) or {}), for an optional dict d
Get(d, k) == IF d = None THEN None ELSE Val(d)[k]
\* d.get(k, []) if d else []
GetList(d, k) == IF d = None THEN <<>> ELSE Val(d)[k]

BoolInt(b) == IF b THEN 1 ELSE 0
AppendIf(seq, b, x) == IF b THEN Append(seq, x) ELSE seq

\* the agreement class: lines 1015-1035
merge_agreement(acr_artist, acr_title, mb_artist, mb_title) ==
    LET has_acr == Truthy(acr_artist) /\ Truthy(acr_title)
        has_mb == Truthy(mb_artist) /\ Truthy(mb_title)
        artist_match == strings_match(acr_artist, mb_artist)
        title_match == strings_match(acr_title, mb_title)
    IN  IF has_acr /\ has_mb
        THEN IF artist_match /\ title_match THEN "full"
             ELSE IF artist_match \/ title_match THEN "partial"
             ELSE "conflict"
        ELSE IF has_acr THEN "acr_only"
        ELSE IF has_mb THEN "mb_only"
        ELSE "none"

\* the confidence on the 0-100 scale of the backends' scores
merge_confidence_percent(agreement, sources_count) ==
    CASE agreement = "full" -> Min(99000, 90000 + 2500 * (sources_count - 2))
      [] agreement = "partial" -> Min(99000, 75000 + 2500 * (sources_count - 2))
      [] agreement = "conflict" -> 60000
      [] agreement = "acr_only" -> Min(99000, 75000 + 5000 * (sources_count - 1))
      [] agreement = "mb_only" -> Min(99000, 70000 + 5000 * (sources_count - 1))
      [] OTHER -> 0

\* the confidence of an enrichment source counted against the record
merge_confidence_decreasing(agreement, sources_count) ==
    CASE agreement = "full" -> Min(ConfCap, ConfFull - StepBoth * (sources_count - 2))
      [] agreement = "partial" -> Min(ConfCap, ConfPartial - StepBoth * (sources_count - 2))
      [] agreement = "conflict" -> Min(ConfCap, ConfConflict)
      [] agreement = "acr_only" -> Min(ConfCap, ConfAcrOnly - StepSingle * (sources_count - 1))
      [] agreement = "mb_only" -> Min(ConfCap, ConfMbOnly - StepSingle * (sources_count - 1))
      [] OTHER -> 0

\* a conflict scored with the increment of the other classes
merge_confidence_conflict_step(agreement, sources_count) ==
    CASE agreement = "full" -> Min(ConfCap, ConfFull + StepBoth * (sources_count - 2))
      [] agreement = "partial" -> Min(ConfCap, ConfPartial + StepBoth * (sources_count - 2))
      [] agreement = "conflict" -> Min(ConfCap, ConfConflict + StepBoth * (sources_count - 2))
      [] agreement = "acr_only" -> Min(ConfCap, ConfAcrOnly + StepSingle * (sources_count - 1))
      [] agreement = "mb_only" -> Min(ConfCap, ConfMbOnly + StepSingle * (sources_count - 1))
      [] OTHER -> 0

\* the confidence: lines 1021-1039 (0.0 and the early return for 'none')
merge_confidence(agreement, sources_count) ==
    CASE agreement = "full" -> Min(ConfCap, ConfFull + StepBoth * (sources_count - 2))
      [] agreement = "partial" -> Min(ConfCap, ConfPartial + StepBoth * (sources_count - 2))
      [] agreement = "conflict" -> Min(ConfCap, ConfConflict)
      [] agreement = "acr_only" -> Min(ConfCap, ConfAcrOnly + StepSingle * (sources_count - 1))
      [] agreement = "mb_only" -> Min(ConfCap, ConfMbOnly + StepSingle * (sources_count - 1))
      [] OTHER -> 0

\* [g.lower() for g in all_genres]
LowerSet(gs) == {StrLower(gs[i]) : i \in 1..Len(gs)}

\* if g and g.lower() not in [...]: all_genres.append(g); if not genre_source: ...
AddGenre(acc, g, name) ==
    IF g # <<>> /\ StrLower(g) \notin LowerSet(acc.genres)
    THEN [genres |-> Append(acc.genres, g),
          source |-> IF acc.source = None THEN Some(<<name>>) ELSE acc.source]
    ELSE acc

AddOptGenre(acc, g, name) == IF g = None THEN acc ELSE AddGenre(acc, Val(g), name)

\* for tag in lastfm_tags: lines 1087-1091
RECURSIVE AddTags(_, _)
AddTags(acc, tags) ==
    IF tags = <<>> THEN acc
    ELSE AddTags(AddGenre(acc, Head(tags), "Last.fm"), Tail(tags))

\* the seen/unique loop: lines 1094-1099
RECURSIVE Unique(_, _)
Unique(gs, out) ==
    IF gs = <<>> THEN out
    ELSE Unique(Tail(gs),
                IF Head(gs) # <<>> /\ StrLower(Head(gs)) \notin LowerSet(out)
                THEN Append(out, Head(gs)) ELSE out)

\* unique[:5]
TakeFirst(seq, n) == SubSeq(seq, 1, Min(n, Len(seq)))

\* the genres with the cap forgotten
merge_genres_uncapped(mb_genres, itunes_genre, deezer_genre, lastfm_tags, sources_used) ==
    LET a0 == [genres |-> mb_genres,
               source |-> IF mb_genres # <<>> THEN Some(<<"MusicBrainz">>) ELSE None]
        a3 == AddTags(AddOptGenre(AddOptGenre(a0, itunes_genre, "iTunes"),
                                  deezer_genre, "Deezer"), lastfm_tags)
    IN  IF a3.genres # <<>> THEN Field(Unique(a3.genres, <<>>), a3.source)
        ELSE Field(<<>>, None)

\* the genres field: lines 1069-1105
merge_genres(mb_genres, itunes_genre, deezer_genre, lastfm_tags, sources_used) ==
    LET a0 == [genres |-> mb_genres,
               source |-> IF mb_genres # <<>> THEN Some(<<"MusicBrainz">>) ELSE None]
        a1 == AddOptGenre(a0, itunes_genre, "iTunes")
        a2 == AddOptGenre(a1, deezer_genre, "Deezer")
        a3 == AddTags(a2, lastfm_tags)
        unique == Unique(a3.genres, <<>>)
        source_str == IF a3.source # None THEN Val(a3.source) ELSE <<"Unknown">>
        plus == Len(sources_used) > 1 /\ Len(unique) > 1
    IN  IF a3.genres # <<>>
        THEN Field(TakeFirst(unique, GenreCap),
                   Some(IF plus THEN source_str \o <<"+">> ELSE source_str))
        ELSE Field(<<>>, None)

\* the bpm field: lines 1119-1136
merge_bpm(deezer_bpm, local_bpm) ==
    LET from_deezer ==
            IF deezer_bpm # None /\ Val(deezer_bpm) > 0
            THEN [value |-> deezer_bpm, source |-> Some(<<"Deezer">>), confidence |-> None]
            ELSE NoBpm
    IN  IF ~TruthyNum(from_deezer.value) /\ local_bpm # None /\ Val(local_bpm).bpm # 0
        THEN [value |-> Some(Val(local_bpm).bpm), source |-> Some(<<"librosa">>),
              confidence |-> Some(Val(local_bpm).confidence)]
        ELSE from_deezer

UnknownAlbum == <<"Unknown Album">>

\* the album field: lines 1053-1063
merge_album(mb_album, acr_album, itunes_album, deezer_album) ==
    IF Truthy(mb_album) /\ mb_album # Some(UnknownAlbum) THEN Field(mb_album, Some(<<"MusicBrainz">>))
    ELSE IF Truthy(acr_album) /\ acr_album # Some(UnknownAlbum) THEN Field(acr_album, Some(<<"ACRCloud">>))
    ELSE IF Truthy(itunes_album) THEN Field(itunes_album, Some(<<"iTunes">>))
    ELSE IF Truthy(deezer_album) THEN Field(deezer_album, Some(<<"Deezer">>))
    ELSE Field(Some(UnknownAlbum), None)

\* the second value preferred to the first
FirstOf_second_preferred(a, a_src, b, b_src, c, c_src) ==
    IF Truthy(b) THEN Field(b, Some(<<b_src>>))
    ELSE IF Truthy(a) THEN Field(a, Some(<<a_src>>))
    ELSE IF Truthy(c) THEN Field(c, Some(<<c_src>>))
    ELSE Field(None, None)

\* prefer the first truthy value: lines 1041-1051, 1065-1067, 1107-1117
FirstOf(a, a_src, b, b_src, c, c_src) ==
    IF Truthy(a) THEN Field(a, Some(<<a_src>>))
    ELSE IF Truthy(b) THEN Field(b, Some(<<b_src>>))
    ELSE IF Truthy(c) THEN Field(c, Some(<<c_src>>))
    ELSE Field(None, None)

\* has_acr, has_mb and the three has_<source> flags: lines 994-998
HasBackend(r) == Truthy(Get(r, "artist")) /\ Truthy(Get(r, "title"))
HasSource(ext, name) == Get(ext, name) # None

\* sources_checked, sources_used, agreement and confidence: lines 993-1036
merge_counted(acr, mb, ext) ==
    LET has_acr == HasBackend(acr)
        has_mb == HasBackend(mb)
        has_itunes == HasSource(ext, "itunes")
        has_deezer == HasSource(ext, "deezer")
        has_lastfm == HasSource(ext, "lastfm")
        sources_count == BoolInt(has_acr) + BoolInt(has_mb) + BoolInt(has_itunes)
                         + BoolInt(has_deezer) + BoolInt(has_lastfm)
        agreement == merge_agreement(Get(acr, "artist"), Get(acr, "title"),
                                     Get(mb, "artist"), Get(mb, "title"))
    IN  [EmptyMerged EXCEPT
            !.sources_checked = sources_count,
            !.sources_used =
                AppendIf(AppendIf(AppendIf(AppendIf(AppendIf(<<>>,
                    has_acr, "ACRCloud"), has_mb, "MusicBrainz"), has_itunes, "iTunes"),
                    has_deezer, "Deezer"), has_lastfm, "Last.fm"),
            !.agreement = agreement,
            !.confidence = merge_confidence(agreement, sources_count)]

\* the fields, filled in after the confidence is clamped: lines 1041-1136
merge_fields(counted, acr, mb, enh, ext) ==
    LET itunes == Get(ext, "itunes")
        deezer == Get(ext, "deezer")
        lastfm == Get(ext, "lastfm")
    IN  [counted EXCEPT
            !.artist = FirstOf(Get(acr, "artist"), "ACRCloud",
                               Get(mb, "artist"), "MusicBrainz", None, "-"),
            !.title = FirstOf(Get(acr, "title"), "ACRCloud",
                              Get(mb, "title"), "MusicBrainz", None, "-"),
            !.album = merge_album(Get(enh, "album"), Get(acr, "album"),
                                  Get(itunes, "album"), Get(deezer, "album")),
            !.label = FirstOf(Get(enh, "label"), "MusicBrainz", None, "-", None, "-"),
            !.genres = merge_genres(GetList(enh, "genres"), Get(itunes, "genre"),
                                    Get(deezer, "genre"), GetList(lastfm, "tags"),
                                    counted.sources_used),
            !.release_date = FirstOf(Get(enh, "release_date"), "MusicBrainz",
                                     Get(itunes, "year"), "iTunes",
                                     Get(deezer, "year"), "Deezer"),
            !.isrc = FirstOf(Get(enh, "isrc"), "MusicBrainz", None, "-", None, "-"),
            !.bpm = merge_bpm(Get(deezer, "bpm"), Get(ext, "local_bpm"))]

\* the merge with the early return of 'none' forgotten
merge_identification_results_no_return(acr, mb, enh, ext) ==
    merge_fields(merge_counted(acr, mb, ext), acr, mb, enh, ext)

merge_identification_results(acr, mb, enh, ext) ==
    LET counted == merge_counted(acr, mb, ext)
    IN  IF counted.agreement = "none" THEN counted
        ELSE merge_fields(counted, acr, mb, enh, ext)

-----------------------------------------------------------------------------
(* strings_match on its own: two non-empty strings, rewritten one character *)
(* at a time in case or in punctuation, the verdict recomputed every time   *)

MaxStrLen == 2

Strings(n) == UNION {[1..k -> Chars] : k \in 0..n}

OtherCase(c) == IF c \in UpperLetters THEN ToLower(c) ELSE ToUpper(c)
InsertAt(s, i, c) == SubSeq(s, 1, i - 1) \o <<c>> \o SubSeq(s, i, Len(s))
RemoveAt(s, i) == SubSeq(s, 1, i - 1) \o SubSeq(s, i + 1, Len(s))

MergeIdle ==
    /\ acr_result = None /\ mb_result = None /\ mb_enhanced = None
    /\ external_meta = None /\ withheld = None /\ merged = None /\ mpc = "idle"

MainIdle ==
    /\ config = None /\ pc = "idle" /\ current_mode = None
    /\ recognizer = None /\ existing_tracks = None
    /\ chunk = None /\ loc = None /\ calls = None /\ files = {} /\ result = None
    /\ exc = None /\ chunk_tempo = None
RunIdle == MainIdle /\ env = None /\ ACOUSTID_API_KEY = None

CallIdle == args = None /\ ret = None /\ fpc = "idle"

ThreadsIdle ==
    /\ tpc = None /\ tlocal = None /\ default_key_warning_shown = FALSE /\ effects = None
    /\ lock = None /\ last_request = 0 /\ clock = 0 /\ stamps = <<>> /\ returns = <<>>

InitMatch ==
    /\ s1 \in Strings(MaxStrLen) \ {<<>>}
    /\ s2 \in Strings(MaxStrLen) \ {<<>>}
    /\ verdict = strings_match(Some(s1), Some(s2))
    /\ last_edit = "none"
    /\ MergeIdle
    /\ RunIdle
    /\ CallIdle
    /\ ThreadsIdle

ChangeCase ==
    \E i \in 1..Len(s1) :
        /\ s1[i] \in LowerLetters \cup UpperLetters
        /\ s1' = [s1 EXCEPT ![i] = OtherCase(s1[i])]
        /\ s2' = s2
        /\ verdict' = strings_match(Some(s1'), Some(s2'))
        /\ last_edit' = "case"
        /\ UNCHANGED <<mergeVars, runVars, callVars, threadVars>>

InsertPunctuation ==
    \E i \in 1..(Len(s1) + 1), p \in Punctuation :
        /\ Len(s1) < MaxStrLen
        /\ s1' = InsertAt(s1, i, p)
        /\ s2' = s2
        /\ verdict' = strings_match(Some(s1'), Some(s2'))
        /\ last_edit' = "insert"
        /\ UNCHANGED <<mergeVars, runVars, callVars, threadVars>>

RemovePunctuation ==
    \E i \in 1..Len(s1) :
        /\ Len(s1) > 1
        /\ s1[i] \in Punctuation
        /\ s1' = RemoveAt(s1, i)
        /\ s2' = s2
        /\ verdict' = strings_match(Some(s1'), Some(s2'))
        /\ last_edit' = "remove"
        /\ UNCHANGED <<mergeVars, runVars, callVars, threadVars>>

SwapArguments ==
    /\ s1' = s2
    /\ s2' = s1
    /\ verdict' = strings_match(Some(s1'), Some(s2'))
    /\ last_edit' = "swap"
    /\ UNCHANGED <<mergeVars, runVars, callVars, threadVars>>

NextMatch == ChangeCase \/ InsertPunctuation \/ RemovePunctuation \/ SwapArguments

SpecMatch == InitMatch /\ [][NextMatch]_vars

\* C6: strings_match gives the same verdict whatever the letter case and the
\* punctuation or whitespace of its two non-empty arguments, and whichever
\* way round they are given: no case change, punctuation insertion or
\* removal, or exchange of the arguments changes the verdict.
C6_VerdictIgnoresCaseAndPunctuation == [][verdict' = verdict]_vars

\* 'A-' is still taken for 'a' after the hyphen was inserted
C6_Witness ==
    /\ last_edit = "insert" /\ verdict
    /\ s1 = <<"A", "-">> /\ s2 = <<"a">>

-----------------------------------------------------------------------------
(* merge_identification_results on its own: the inputs are drawn in Init,   *)
(* CallMerge calls it, and AddEnrichmentSource calls it again with one more *)
(* enrichment source than before                                            *)

MaxMbGenres == 3

MatchIdle == s1 = <<>> /\ s2 = <<>> /\ verdict = FALSE /\ last_edit = "idle"

SeqsUpTo(S, n) == UNION {[1..k -> S] : k \in 0..n}

ArtistPool == {None, Some(<<>>), Some(<<"A", "1">>), Some(<<"a", "-", "1">>), Some(<<"a", "a">>)}
TitlePool == {None, Some(<<"a">>), Some(<<"A", " ">>), Some(<<"1">>)}

\* what process_single_track builds from the recognizer's answer: lines 189-193
AcrDict(a, t, al) == Some([artist |-> a, title |-> t, album |-> al])
\* what the callers build from a Shazam or AcoustID answer: lines 200, 212
MbDict(a, t) == Some([artist |-> a, title |-> t])
\* get_enhanced_metadata's answer
EnhDict(al, lb, gs, rd, isrc) ==
    Some([album |-> al, label |-> lb, genres |-> gs, release_date |-> rd, isrc |-> isrc])
\* get_itunes_metadata, get_deezer_metadata, get_lastfm_metadata, detect_bpm_librosa
ItunesDict(g, y, al) == Some([genre |-> g, year |-> y, album |-> al])
DeezerDict(g, y, al, bpm) == Some([genre |-> g, year |-> y, album |-> al, bpm |-> bpm])
LastfmDict(tags) == Some([tags |-> tags])
LocalBpm(bpm, conf) == Some([bpm |-> bpm, confidence |-> conf])
\* get_all_external_metadata's answer with _detect_bpm_if_needed's local_bpm
ExternalMeta(i, d, l, b) == Some([itunes |-> i, deezer |-> d, lastfm |-> l, local_bpm |-> b])

SomeEnhanced ==
    EnhDict(Some(<<"Album M">>), Some(<<"Label M">>), <<<<"a">>>>, Some(<<"2019">>), Some(<<"ISRC">>))
SomeItunes == ItunesDict(Some(<<"A">>), Some(<<"2020">>), Some(<<"Album I">>))
SomeDeezer == DeezerDict(Some(<<"1">>), Some(<<"2021">>), Some(<<"Album D">>), None)
SomeLastfm == LastfmDict(<<<<"a", "1">>>>)
SomeLocalBpm == LocalBpm(124, 800)

NothingWithheld == [itunes |-> None, deezer |-> None, lastfm |-> None]

\* inputs that vary the two backends' guesses and the number of sources
InitAgreementInputs ==
    /\ acr_result \in {None} \cup {AcrDict(a, t, Some(UnknownAlbum)) : a \in ArtistPool, t \in TitlePool}
    /\ mb_result \in {None} \cup {MbDict(a, t) : a \in ArtistPool, t \in TitlePool}
    /\ \E extras \in BOOLEAN, i, d, l \in {"absent", "passed", "withheld"} :
          /\ mb_enhanced = IF extras THEN SomeEnhanced ELSE None
          /\ external_meta =
                ExternalMeta(IF i = "passed" THEN SomeItunes ELSE None,
                             IF d = "passed" THEN SomeDeezer ELSE None,
                             IF l = "passed" THEN SomeLastfm ELSE None,
                             IF extras THEN SomeLocalBpm ELSE None)
          /\ withheld = [itunes |-> IF i = "withheld" THEN SomeItunes ELSE None,
                         deezer |-> IF d = "withheld" THEN SomeDeezer ELSE None,
                         lastfm |-> IF l = "withheld" THEN SomeLastfm ELSE None]

MbGenrePool == {<<"a">>, <<"A">>, <<"1">>}
TagLists == {<<>>, <<<<"a", "1">>>>, <<<<"a", "1">>, <<"-">>>>,
             <<<<"A">>, <<"-">>, <<"a", "1">>>>, <<<<>>, <<"A", "1">>, <<"a", "1">>>>}

\* inputs that vary what the enrichment sources say
InitFieldInputs ==
    /\ acr_result \in {None, AcrDict(Some(<<"a">>), Some(<<"1">>), Some(<<"Album A">>))}
    /\ mb_result \in {None, MbDict(Some(<<"A">>), Some(<<"1", "1">>))}
    /\ acr_result # None \/ mb_result # None
    /\ mb_enhanced \in
          {EnhDict(Some(UnknownAlbum), None, gs, None, None) : gs \in SeqsUpTo(MbGenrePool, MaxMbGenres)}
    /\ \E i \in {None} \cup {ItunesDict(g, Some(<<"2020">>), Some(<<>>)) :
                                g \in {Some(<<"A">>), Some(<<"1", "1">>)}},
          d \in {None, DeezerDict(Some(<<"a">>), None, Some(<<"Album D">>), Some(128)),
                       DeezerDict(Some(<<"1", "a">>), Some(<<"2021">>), Some(<<>>), None)},
          l \in {None} \cup {LastfmDict(tags) : tags \in TagLists} :
            external_meta = ExternalMeta(i, d, l, SomeLocalBpm)
    /\ withheld = NothingWithheld

InitMerge ==
    /\ InitAgreementInputs \/ InitFieldInputs
    /\ merged = None
    /\ mpc = "ready"
    /\ MatchIdle
    /\ RunIdle
    /\ CallIdle
    /\ ThreadsIdle

CallMerge ==
    /\ mpc = "ready"
    /\ merged' = Some(merge_identification_results(acr_result, mb_result, mb_enhanced, external_meta))
    /\ mpc' = "merged"
    /\ UNCHANGED <<acr_result, mb_result, mb_enhanced, external_meta, withheld>>
    /\ UNCHANGED <<matchVars, runVars, callVars, threadVars>>

AddEnrichmentSource ==
    /\ mpc \in {"merged", "enriched"}
    /\ \E name \in {"itunes", "deezer", "lastfm"} :
          /\ withheld[name] # None
          /\ external_meta' = Some([Val(external_meta) EXCEPT ![name] = withheld[name]])
          /\ withheld' = [withheld EXCEPT ![name] = None]
    /\ merged' = Some(merge_identification_results(acr_result, mb_result, mb_enhanced, external_meta'))
    /\ mpc' = "enriched"
    /\ UNCHANGED <<acr_result, mb_result, mb_enhanced>>
    /\ UNCHANGED <<matchVars, runVars, callVars, threadVars>>

NextMerge == CallMerge \/ AddEnrichmentSource

SpecMerge == InitMerge /\ [][NextMerge]_vars

Result == Val(merged)

\* C2: whatever the primary guess, the secondary guess, the MusicBrainz data
\* and the enrichment bundle, the merged confidence lies in [0, 0.99].
C2_ConfidenceBound ==
    merged # None => Result.confidence >= 0 /\ Result.confidence <= 990

\* full agreement with all three enrichment sources: 0.90 + 3 * 0.025
C2_Witness ==
    /\ merged # None /\ Result.agreement = "full"
    /\ Result.sources_checked = 5 /\ Result.confidence = 975

\* C3: for fixed primary and secondary guesses, merging with one more
\* non-empty enrichment source (iTunes, Deezer or Last.fm) never lowers the
\* confidence and never changes the agreement class.
C3_MoreSourcesNeverLower ==
    [][(merged # None /\ mpc' = "enriched") =>
            /\ Val(merged').confidence >= Result.confidence
            /\ Val(merged').agreement = Result.agreement]_vars

\* a second enrichment source has raised a partial agreement to 0.80
C3_Witness ==
    /\ mpc = "enriched" /\ Result.agreement = "partial"
    /\ Result.sources_checked = 4 /\ Result.confidence = 800

C4_Empty(v) == v = None \/ v = Some(<<>>)

\* C4: the agreement is 'none' exactly when neither guess has both an artist
\* and a title, and then the confidence is 0 and every field's value is None
\* or empty, enrichment and MusicBrainz data notwithstanding.
C4_NoneIsEmpty ==
    merged # None =>
        /\ Result.agreement = "none" <=>
                /\ ~(Truthy(Get(acr_result, "artist")) /\ Truthy(Get(acr_result, "title")))
                /\ ~(Truthy(Get(mb_result, "artist")) /\ Truthy(Get(mb_result, "title")))
        /\ Result.agreement = "none" =>
                /\ Result.confidence = 0
                /\ \A f \in {"artist", "title", "album", "label", "release_date", "isrc", "bpm"} :
                        C4_Empty(Result[f].value)
                /\ Result.genres.value = <<>>

\* an artist without a title, no secondary guess, enrichment and MusicBrainz data present
C4_Witness ==
    /\ merged # None /\ Result.agreement = "none"
    /\ acr_result # None /\ Truthy(Val(acr_result).artist) /\ mb_result = None
    /\ mb_enhanced # None /\ Get(external_meta, "itunes") # None
    /\ Get(external_meta, "local_bpm") # None

\* the number of non-empty enrichment sources
C5_K ==
    Cardinality({n \in {"itunes", "deezer", "lastfm"} : Val(external_meta)[n] # None})

C5_Present(r) ==
    /\ r # None
    /\ Val(r).artist # None /\ Val(Val(r).artist) # <<>>
    /\ Val(r).title # None /\ Val(Val(r).title) # <<>>

C5_Same(x, y) == normalize(Val(x)) = normalize(Val(y))

\* C5: with k non-empty enrichment sources, both guesses present give full
\* (both of artist and title match after normalization, min(0.99, 0.90 +
\* 0.025k)), partial (exactly one matches, min(0.99, 0.75 + 0.025k)) or
\* conflict (neither matches, 0.60 for every k); the primary alone gives
\* min(0.99, 0.75 + 0.05k) and the secondary alone min(0.99, 0.70 + 0.05k).
C5_ReferenceRule ==
    merged # None =>
        LET k == C5_K
            p == C5_Present(acr_result)
            s == C5_Present(mb_result)
            am == C5_Same(Val(acr_result).artist, Val(mb_result).artist)
            tm == C5_Same(Val(acr_result).title, Val(mb_result).title)
        IN  /\ (p /\ s /\ am /\ tm) =>
                    Result.agreement = "full" /\ Result.confidence = Min(990, 900 + 25 * k)
            /\ (p /\ s /\ (am # tm)) =>
                    Result.agreement = "partial" /\ Result.confidence = Min(990, 750 + 25 * k)
            /\ (p /\ s /\ ~am /\ ~tm) =>
                    Result.agreement = "conflict" /\ Result.confidence = 600
            /\ (p /\ ~s) => Result.confidence = Min(990, 750 + 50 * k)
            /\ (~p /\ s) => Result.confidence = Min(990, 700 + 50 * k)

\* a conflict with three enrichment sources stays at 0.60
C5_Witness ==
    /\ merged # None /\ Result.agreement = "conflict"
    /\ C5_K = 3 /\ Result.confidence = 600

\* every genre the sources offered, in the order MusicBrainz, iTunes, Deezer, Last.fm
C7_Offered ==
    LET opt(g) == IF g = None THEN <<>> ELSE <<Val(g)>>
    IN  GetList(mb_enhanced, "genres")
        \o opt(Get(Get(external_meta, "itunes"), "genre"))
        \o opt(Get(Get(external_meta, "deezer"), "genre"))
        \o GetList(Get(external_meta, "lastfm"), "tags")

C7_SameIgnoringCase(x, y) ==
    Len(x) = Len(y) /\ \A i \in 1..Len(x) : ToLower(x[i]) = ToLower(y[i])

\* where a genre was first offered, in any spelling
C7_FirstSeen(g) ==
    CHOOSE k \in 1..Len(C7_Offered) :
        /\ C7_SameIgnoringCase(C7_Offered[k], g)
        /\ \A j \in 1..(k - 1) : ~C7_SameIgnoringCase(C7_Offered[j], g)

\* C7: the merged genres are at most 5, no two equal ignoring case, and in
\* first-seen order over MusicBrainz, iTunes, Deezer, Last.fm.
C7_GenreCap ==
    merged # None =>
        LET g == Result.genres.value
        IN  /\ Len(g) <= 5
            /\ \A i, j \in 1..Len(g) : i # j => ~C7_SameIgnoringCase(g[i], g[j])
            /\ \A i \in 1..Len(g) :
                    \E k \in 1..Len(C7_Offered) : C7_SameIgnoringCase(C7_Offered[k], g[i])
            /\ \A i, j \in 1..Len(g) : i < j => C7_FirstSeen(g[i]) < C7_FirstSeen(g[j])

\* six distinct genres were offered, one of them twice in two spellings
C7_Witness ==
    /\ merged # None /\ Len(Result.genres.value) = 5
    /\ Cardinality({StrLower(C7_Offered[k]) : k \in 1..Len(C7_Offered)}) = 6
    /\ \E j, k \in 1..Len(C7_Offered) :
            j # k /\ C7_Offered[j] # C7_Offered[k]
            /\ C7_SameIgnoringCase(C7_Offered[j], C7_Offered[k])

-----------------------------------------------------------------------------
(* The identification modes and get_mode: mixsplitr_core.py 100-151 *)

MODE_ACRCLOUD == "acrcloud"
MODE_MB_ONLY == "musicbrainz_only"
MODE_MANUAL == "manual_search_only"
MODE_DUAL == "dual_best_match"

\* get_mode without the test of the ACRCloud key under a configured 'acrcloud'
get_mode_keeps_acrcloud(cfg) ==
    LET has_acrcloud == Truthy(cfg.access_key)
        has_acoustid == Truthy(cfg.acoustid_api_key)
        configured_mode == IF cfg.mode = None THEN MODE_ACRCLOUD ELSE Val(cfg.mode)
    IN  IF ~has_acrcloud /\ ~has_acoustid THEN MODE_MANUAL
        ELSE IF configured_mode = MODE_DUAL /\ (~has_acrcloud \/ ~has_acoustid)
             THEN IF has_acrcloud THEN MODE_ACRCLOUD
                  ELSE IF has_acoustid THEN MODE_MB_ONLY
                  ELSE MODE_MANUAL
        ELSE configured_mode

get_mode(cfg) ==
    LET has_acrcloud == Truthy(cfg.access_key)
        has_acoustid == Truthy(cfg.acoustid_api_key)
        \* config.get("mode", MODE_ACRCLOUD)
        configured_mode == IF cfg.mode = None THEN MODE_ACRCLOUD ELSE Val(cfg.mode)
    IN  IF ~has_acrcloud /\ ~has_acoustid THEN MODE_MANUAL
        ELSE IF configured_mode = MODE_DUAL /\ (~has_acrcloud \/ ~has_acoustid)
             THEN IF has_acrcloud THEN MODE_ACRCLOUD
                  ELSE IF has_acoustid THEN MODE_MB_ONLY
                  ELSE MODE_MANUAL
        ELSE IF configured_mode = MODE_ACRCLOUD /\ ~has_acrcloud
             THEN IF has_acoustid THEN MODE_MB_ONLY ELSE MODE_MANUAL
        ELSE configured_mode

\* get_config's back-fill of a configuration file written before the mode
\* key existed: mixsplitr_core.py 674-679
backfill_mode(cfg) ==
    IF cfg.mode # None THEN cfg
    ELSE IF Truthy(cfg.host) /\ Truthy(cfg.access_key)
         THEN [cfg EXCEPT !.mode = Some(MODE_ACRCLOUD)]
         ELSE [cfg EXCEPT !.mode = Some(MODE_MB_ONLY)]

-----------------------------------------------------------------------------
(* One run of main over one chunk: the values it works on *)

\* the shortest chunk that is identified, in milliseconds (len of an AudioSegment)
MIN_CHUNK_MS == 10000

\* len(chunk) < 10000 with the comparison made inclusive
too_short_inclusive(c) == Val(c) <= MIN_CHUNK_MS

\* len(chunk) < 10000: mixsplitr_processing.py 164, 332, 388, 583
too_short(c) == Val(c) < MIN_CHUNK_MS

\* the keys of config.json the run reads
Config(h, ak, ok, m, ds) ==
    [host |-> h, access_key |-> ak, acoustid_api_key |-> ok, mode |-> m,
     disable_shazam |-> ds, disable_local_bpm |-> FALSE]
\* the optional libraries that were importable
Env(a, o, s) == [acrcloud_sdk |-> a, acoustid_lib |-> o, shazam_lib |-> s]

SomeKey == Some(<<"k">>)
SomeHost == Some(<<"h">>)
KeyPool == {None, Some(<<>>), SomeKey}
Modes == {MODE_ACRCLOUD, MODE_MB_ONLY, MODE_MANUAL, MODE_DUAL}
ChunkPool == {Some(MIN_CHUNK_MS - 1), Some(MIN_CHUNK_MS)}

\* no call made yet
NoCalls ==
    [export |-> 0, wait |-> 0, recognize |-> 0, acrcloud |-> 0, shazam |-> 0, acoustid |-> 0,
     enhanced |-> 0, mb_search |-> 0, external |-> 0, bpm |-> 0]
Bump(c, k) == [c EXCEPT ![k] = @ + 1]
BumpIf(c, b, k) == IF b THEN Bump(c, k) ELSE c

\* the locals of a process_single_track* call before its first assignment
NoLocals ==
    [res |-> None, shazam_result |-> None, aid_result |-> None, recording_id |-> None,
     acoustid_attempted |-> FALSE, acr_confidence |-> 0, shazam_confidence |-> 0,
     aid_confidence |-> 0, winner |-> None, winner_source |-> None,
     winner_confidence |-> 0, acr_candidate |-> None, expected_filename |-> None,
     local_bpm |-> None]

\* the dict a process_single_track* call returns
NoResult ==
    [status |-> "none", reason |-> None, artist |-> None, title |-> None, album |-> None,
     identification_source |-> None, confidence |-> None, enhanced_metadata |-> None,
     detected_bpm |-> None, bpm_confidence |-> None, temp_flac |-> FALSE]
Skipped(reason) == Some([NoResult EXCEPT !.status = "skipped", !.reason = Some(reason)])

\* scan_existing_library: mixsplitr_memory.py 33-46; the library is a set
scan_existing_library(basenames) == [kind |-> "set", items |-> basenames]

\* expected_filename: mixsplitr_processing.py 240; str(None) is 'None'
ForbiddenChars == {"<", ">", ":", "\"", "/", "\\", "|", "?", "*"}
IsAllowedChar(c) == c \notin ForbiddenChars
Str(o) == IF o = None THEN <<"N", "o", "n", "e">> ELSE Val(o)
ExpectedFilename(artist, title) ==
    SelectSeq(Str(artist) \o <<" ", "-", " ">> \o Str(title) \o <<".", "f", "l", "a", "c">>,
              IsAllowedChar)

-----------------------------------------------------------------------------
(* What the backends can answer *)

\* json.loads(recognizer.recognize_by_file(...)): an exception (a time-out, a
\* connection error, a body that is not JSON), a no-match answer or a match
AcrRaises == [kind |-> "raise", code |-> 0, music |-> <<>>, score |-> None]
AcrMiss == [kind |-> "response", code |-> 1001, music |-> <<>>, score |-> None]
AcrHit ==
    [kind |-> "response", code |-> 0,
     music |-> <<[artist |-> Some(<<"a">>), title |-> Some(<<"1">>), album |-> Some(<<"Album A">>)]>>,
     score |-> None]
AcrAnswers == {AcrRaises, AcrMiss, AcrHit}

\* identify_with_shazam: None, or a dict with an artist and a title (457-460)
ShazamHit == Some([artist |-> Some(<<"A">>), title |-> Some(<<"1">>), album |-> None])
ShazamAnswers == {None, ShazamHit}

\* acoustid.match: an error, or (score, recording_id, title, artist) tuples,
\* scores in hundredths
Candidate(score, rid, title, artist) ==
    [score |-> score, recording_id |-> rid, title |-> title, artist |-> artist]
AcoustidError == [kind |-> "error", results |-> <<>>]
AcoustidResults(rs) == [kind |-> "results", results |-> rs]
AcoustidAnswers ==
    {AcoustidError,
     AcoustidResults(<<>>),
     AcoustidResults(<<Candidate(90, Some(<<"rid">>), Some(<<"1">>), Some(<<"A">>))>>),
     AcoustidResults(<<Candidate(50, Some(<<"rid">>), Some(<<"1">>), Some(<<"A">>)),
                       Candidate(80, None, Some(<<"a">>), Some(<<"1">>))>>),
     AcoustidResults(<<Candidate(60, Some(<<"rid">>), Some(<<"1">>), None)>>)}

\* get_enhanced_metadata: {} or the MusicBrainz data
EnhancedAnswers == {None, SomeEnhanced}

\* get_all_external_metadata: a getter that fails answers None
DeezerWithBpm == DeezerDict(Some(<<"1">>), Some(<<"2021">>), Some(<<"Album D">>), Some(128))
ExternalAnswers ==
    {ExternalMeta(None, None, None, None),
     ExternalMeta(SomeItunes, SomeDeezer, SomeLastfm, None),
     ExternalMeta(None, DeezerWithBpm, None, None)}
\* external_meta = {}
NoExternalMeta == ExternalMeta(None, None, None, None)

\* detect_bpm_librosa on the chunk: None, or a tempo with its confidence
BpmAnswers == {None, SomeLocalBpm}

\* musicbrainz_search_recordings on the file name: the name does not qualify
\* (processing 445), or the candidates found
SearchAnswers ==
    {[searched |-> FALSE, candidates |-> <<>>],
     [searched |-> TRUE, candidates |-> <<>>],
     [searched |-> TRUE,
      candidates |-> <<Candidate(0, Some(<<"rid">>), Some(<<"1">>), Some(<<"A">>))>>]}

\* the output folder's audio files when main scans it
LibraryPool ==
    {{}, {ExpectedFilename(Some(<<"a">>), Some(<<"1">>)), ExpectedFilename(Some(<<"A">>), Some(<<"1">>))}}

-----------------------------------------------------------------------------
(* Pure parts of the adapters and of the workers *)

\* identify_with_acoustid accepts a score above 0.5
ACOUSTID_MIN_SCORE == 50
\* the comparison made inclusive
ScoreAccepted_inclusive(r) == r.score >= ACOUSTID_MIN_SCORE
ScoreAccepted(r) == r.score > ACOUSTID_MIN_SCORE

\* identify_with_acoustid: mixsplitr_identify.py 207-357
identify_with_acoustid(available, api_key, answer) ==
    IF ~available THEN None
    ELSE IF ~Truthy(api_key) THEN None
    ELSE IF answer.kind = "error" THEN None
    ELSE LET accepted == SelectSeq(answer.results, ScoreAccepted)
         IN  IF accepted = <<>> THEN None
             ELSE Some([artist |-> accepted[1].artist, title |-> accepted[1].title,
                        recording_id |-> accepted[1].recording_id,
                        score |-> accepted[1].score])

\* res.get("status", {}).get("code") == 0 and res.get("metadata", {}).get("music")
acr_matched(res) == res.code = 0 /\ res.music # <<>>

\* the acr_result dict: mixsplitr_processing.py 188-193
acr_result_of(res) == AcrDict(res.music[1].artist, res.music[1].title, res.music[1].album)

\* _build_enhanced_metadata: mixsplitr_processing.py 111-124
build_enhanced_metadata(m) ==
    [genres |-> m.genres.value,
     release_date |-> IF Truthy(m.release_date.value) THEN m.release_date.value ELSE None,
     label |-> IF Truthy(m.label.value) THEN m.label.value ELSE None,
     isrc |-> IF Truthy(m.isrc.value) THEN m.isrc.value ELSE None,
     bpm |-> IF TruthyNum(m.bpm.value) THEN m.bpm.value ELSE None]

\* skip in _detect_bpm_if_needed: Deezer already gave a tempo (processing 90-93)
deezer_has_bpm(ext) == TruthyNum(Get(Get(ext, "deezer"), "bpm"))

\* the estimator run without a look at Deezer's answer
runs_detector_ignoring_deezer(use_local_bpm, ext, c) == use_local_bpm /\ c # None
\* whether _detect_bpm_if_needed(chunk, external_meta) reaches
\* detect_bpm_librosa: processing 88-95
runs_detector(use_local_bpm, ext, c) ==
    use_local_bpm /\ ~deezer_has_bpm(ext) /\ c # None

-----------------------------------------------------------------------------
(* main: mixsplitr.py 1458-1886, for one chunk *)

\* configuration files that vary the mode, the keys and the local BPM switch,
\* every library installed
InitConfigInputs ==
    /\ config \in
          {Config(SomeHost, ak, ok, Some(m), FALSE) : ak \in KeyPool, ok \in KeyPool, m \in Modes}
          \cup {Config(h, ak, ok, None, FALSE) :
                    h \in {None, SomeHost}, ak \in {None, SomeKey}, ok \in {None, SomeKey}}
          \cup {[Config(SomeHost, SomeKey, SomeKey, Some(m), FALSE)
                     EXCEPT !.disable_local_bpm = TRUE] : m \in Modes}
    /\ env = Env(TRUE, TRUE, TRUE)

\* both keys configured, the installed libraries and the Shazam switch varied
InitEnvInputs ==
    /\ config \in {Config(SomeHost, SomeKey, SomeKey, Some(m), ds) : m \in Modes, ds \in BOOLEAN}
    /\ env \in {Env(a, o, s) : a \in BOOLEAN, o \in BOOLEAN, s \in BOOLEAN}

InitRun ==
    /\ InitConfigInputs \/ InitEnvInputs
    /\ chunk \in ChunkPool
    /\ chunk_tempo \in BpmAnswers
    /\ pc = "start"
    /\ current_mode = None
    /\ recognizer = None
    /\ ACOUSTID_API_KEY = None
    /\ existing_tracks = None
    /\ loc = NoLocals
    /\ calls = NoCalls
    /\ files = {}
    /\ result = None
    /\ exc = None
    /\ acr_result = None /\ mb_result = None /\ mb_enhanced = None
    /\ external_meta = None /\ withheld = None /\ merged = None /\ mpc = "idle"
    /\ MatchIdle
    /\ CallIdle
    /\ ThreadsIdle

\* what a step of the run leaves alone unless it says otherwise
mainOnly == <<chunk, chunk_tempo, loc, calls, files, result, exc, callVars, threadVars,
              acr_result, mb_result, mb_enhanced, external_meta, withheld, merged, mpc>>
mainState == <<config, env, current_mode, recognizer, ACOUSTID_API_KEY>>

\* config = get_config(): line 1458
MainGetConfig ==
    /\ pc = "start"
    /\ config' = backfill_mode(config)
    /\ pc' = "configured"
    /\ UNCHANGED <<env, current_mode, recognizer, ACOUSTID_API_KEY, existing_tracks>>
    /\ UNCHANGED mainOnly
    /\ UNCHANGED matchVars

\* set_acoustid_api_key and current_mode = get_mode(config): lines 1513-1516
MainResolveMode ==
    /\ pc = "configured"
    /\ ACOUSTID_API_KEY' =
          IF Truthy(config.acoustid_api_key) THEN config.acoustid_api_key ELSE ACOUSTID_API_KEY
    /\ current_mode' = Some(get_mode(config))
    /\ pc' = "validate"
    /\ UNCHANGED <<config, env, recognizer, existing_tracks>>
    /\ UNCHANGED mainOnly
    /\ UNCHANGED matchVars

\* the checks of the resolved mode: lines 1518-1597.  The operator answers
\* a failed validation with new credentials (1), a switch to MusicBrainz-only
\* (2) or an exit; a missing SDK switches by itself.
MainValidate ==
    /\ pc = "validate"
    /\ \E valid \in BOOLEAN, fix_choice \in {"1", "2", "3"}, chromaprint \in BOOLEAN, cont \in BOOLEAN :
          LET acr == current_mode = Some(MODE_ACRCLOUD)
              failed == acr /\ env.acrcloud_sdk /\ ~valid
              retry == failed /\ fix_choice = "1"
              quit == failed /\ fix_choice = "3"
              switch == acr /\ (~env.acrcloud_sdk \/ (failed /\ fix_choice = "2"))
              mode == IF switch THEN Some(MODE_MB_ONLY) ELSE current_mode
              mb_quit == mode = Some(MODE_MB_ONLY)
                         /\ (~env.acoustid_lib \/ (~chromaprint /\ ~cont))
          IN  /\ config' = IF retry THEN [config EXCEPT !.host = SomeHost, !.access_key = SomeKey]
                           ELSE IF switch THEN [config EXCEPT !.mode = Some(MODE_MB_ONLY)]
                           ELSE config
              /\ current_mode' = IF retry \/ quit THEN current_mode ELSE mode
              /\ pc' = IF retry THEN "validate"
                       ELSE IF quit \/ mb_quit THEN "exited"
                       ELSE "setup"
    /\ UNCHANGED <<env, recognizer, ACOUSTID_API_KEY, existing_tracks>>
    /\ UNCHANGED mainOnly
    /\ UNCHANGED matchVars

\* the recognizer and the existing library: lines 1715-1720
MainSetup ==
    /\ pc = "setup"
    /\ recognizer' = IF current_mode = Some(MODE_ACRCLOUD) THEN Some("ACRCloudRecognizer") ELSE None
    /\ \E library \in LibraryPool : existing_tracks' = scan_existing_library(library)
    /\ pc' = "dispatch"
    /\ UNCHANGED <<config, env, current_mode, ACOUSTID_API_KEY>>
    /\ UNCHANGED mainOnly
    /\ UNCHANGED matchVars

\* the worker main submits the chunk to: lines 1856-1886
MainDispatch ==
    /\ pc = "dispatch"
    /\ pc' = IF current_mode = Some(MODE_MANUAL) THEN "manual"
             ELSE IF current_mode = Some(MODE_ACRCLOUD) THEN "acr"
             ELSE IF current_mode = Some(MODE_DUAL) THEN "dual"
             ELSE "mb"
    /\ UNCHANGED <<mainState, existing_tracks>>
    /\ UNCHANGED mainOnly
    /\ UNCHANGED matchVars

\* results.append(future.result()): lines 1862, 1869, 1877, 1886; an
\* exception of the worker is raised again here, in main
MainCollect ==
    /\ pc \in {"returned", "raised"}
    /\ pc' = IF pc = "raised" THEN "aborted" ELSE "collected"
    /\ UNCHANGED <<mainState, existing_tracks>>
    /\ UNCHANGED mainOnly
    /\ UNCHANGED matchVars

-----------------------------------------------------------------------------
(* process_single_track_manual: mixsplitr_processing.py 319-360 *)

\* what every worker step leaves alone
workerFixed == <<mainState, chunk, chunk_tempo, matchVars, withheld, mpc, callVars, threadVars>>
mergeArgs == <<acr_result, mb_result, mb_enhanced, external_meta, merged>>

\* lines 326-333
ManualStart ==
    /\ pc = "manual"
    /\ IF chunk = None THEN result' = Skipped("no_chunk") /\ pc' = "returned"
       ELSE IF too_short(chunk) THEN result' = Skipped("too_short") /\ pc' = "returned"
       ELSE result' = result /\ pc' = "manual_append"
    /\ UNCHANGED <<existing_tracks, loc, calls, files, exc>>
    /\ UNCHANGED mergeArgs
    /\ UNCHANGED workerFixed

\* lines 336-360: existing_tracks.append needs a list, and a set has no
\* append; after it the chunk is exported unless main cached it already
ManualFinish ==
    /\ pc = "manual_append"
    /\ IF existing_tracks.kind = "list"
       THEN /\ existing_tracks' = [existing_tracks EXCEPT !.items = Append(@, "unidentified")]
            /\ result' = Some([NoResult EXCEPT !.status = "unidentified",
                                  !.artist = Some(<<>>), !.title = Some(<<>>),
                                  !.album = Some(<<>>), !.temp_flac = TRUE])
            /\ pc' = "returned"
            /\ exc' = exc
       ELSE /\ exc' = Some("AttributeError")
            /\ pc' = "raised"
            /\ UNCHANGED <<existing_tracks, result>>
    /\ UNCHANGED <<loc, calls, files>>
    /\ UNCHANGED mergeArgs
    /\ UNCHANGED workerFixed

-----------------------------------------------------------------------------
(* process_single_track: mixsplitr_processing.py 155-312 *)

\* lines 158-165
AcrStart ==
    /\ pc = "acr"
    /\ IF chunk = None THEN result' = Skipped("no_chunk") /\ pc' = "returned"
       ELSE IF too_short(chunk) THEN result' = Skipped("too_short") /\ pc' = "returned"
       ELSE result' = result /\ pc' = "acr_export"
    /\ UNCHANGED <<existing_tracks, loc, calls, files, exc>>
    /\ UNCHANGED mergeArgs
    /\ UNCHANGED workerFixed

\* temp_name = _export_id_sample(chunk, file_num, i): line 167
AcrExportSample ==
    /\ pc = "acr_export"
    /\ files' = files \cup {"temp_id"}
    /\ calls' = Bump(calls, "export")
    /\ pc' = "acr_wait"
    /\ UNCHANGED <<existing_tracks, loc, result, exc>>
    /\ UNCHANGED mergeArgs
    /\ UNCHANGED workerFixed

\* rate_limiter.wait(): line 169
AcrRateLimit ==
    /\ pc = "acr_wait"
    /\ calls' = Bump(calls, "wait")
    /\ pc' = "acr_recognize"
    /\ UNCHANGED <<existing_tracks, loc, files, result, exc>>
    /\ UNCHANGED mergeArgs
    /\ UNCHANGED workerFixed

\* res = json.loads(recognizer.recognize_by_file(temp_name, 0)): line 170,
\* outside any try: what the call raises leaves process_single_track
AcrRecognize ==
    /\ pc = "acr_recognize"
    /\ calls' = BumpIf(Bump(calls, "recognize"), recognizer # None, "acrcloud")
    /\ \E answer \in AcrAnswers :
          IF recognizer = None \/ answer.kind = "raise"
          THEN /\ exc' = Some(IF recognizer = None THEN "AttributeError" ELSE "Exception")
               /\ pc' = "raised"
               /\ loc' = loc
          ELSE /\ loc' = [loc EXCEPT !.res = Some(answer)]
               /\ pc' = "acr_answer"
               /\ exc' = exc
    /\ UNCHANGED <<existing_tracks, files, result>>
    /\ UNCHANGED mergeArgs
    /\ UNCHANGED workerFixed

\* the sample removed and the answer read: lines 172-196, 206
AcrReadAnswer ==
    /\ pc = "acr_answer"
    /\ files' = files \ {"temp_id"}
    /\ mb_result' = None
    /\ mb_enhanced' = None
    /\ IF acr_matched(Val(loc.res))
       THEN /\ acr_result' = acr_result_of(Val(loc.res))
            /\ pc' = IF env.acoustid_lib THEN "acr_enhance" ELSE "enrich"
       ELSE /\ acr_result' = None
            /\ pc' = "shazam"
    /\ UNCHANGED <<existing_tracks, loc, calls, result, exc, external_meta, merged>>
    /\ UNCHANGED workerFixed

\* mb_enhanced = get_enhanced_metadata(artist, title): line 197
AcrEnhance ==
    /\ pc = "acr_enhance"
    /\ calls' = Bump(calls, "enhanced")
    /\ mb_enhanced' \in EnhancedAnswers
    /\ pc' = "acr_acoustid"
    /\ UNCHANGED <<existing_tracks, loc, files, result, exc,
                   acr_result, mb_result, external_meta, merged>>
    /\ UNCHANGED workerFixed

\* the AcoustID cross-check of an ACRCloud match: lines 198-204
AcrCrossCheck ==
    /\ pc = "acr_acoustid"
    /\ calls' = Bump(calls, "acoustid")
    /\ \E answer \in AcoustidAnswers :
          LET acoustid_result == identify_with_acoustid(env.acoustid_lib, ACOUSTID_API_KEY, answer)
          IN  IF acoustid_result # None
              THEN /\ mb_result' = MbDict(Val(acoustid_result).artist, Val(acoustid_result).title)
                   /\ loc' = [loc EXCEPT !.recording_id = Val(acoustid_result).recording_id,
                                         !.aid_result = acoustid_result]
                   /\ pc' = IF Truthy(Val(acoustid_result).recording_id)
                            THEN "acr_enhance_id" ELSE "enrich"
              ELSE /\ UNCHANGED <<mb_result, loc>>
                   /\ pc' = "enrich"
    /\ UNCHANGED <<existing_tracks, files, result, exc,
                   acr_result, mb_enhanced, external_meta, merged>>
    /\ UNCHANGED workerFixed

\* mb_enhanced = get_enhanced_metadata(artist, title, recording_id): line 205
AcrEnhanceById ==
    /\ pc = "acr_enhance_id"
    /\ calls' = Bump(calls, "enhanced")
    /\ mb_enhanced' \in EnhancedAnswers
    /\ pc' = "enrich"
    /\ UNCHANGED <<existing_tracks, loc, files, result, exc,
                   acr_result, mb_result, external_meta, merged>>
    /\ UNCHANGED workerFixed

-----------------------------------------------------------------------------
(* process_single_track_mb_only: mixsplitr_processing.py 366-559, and the   *)
(* steps it has in common with process_single_track: the Shazam-then-       *)
(* AcoustID chain, the enrichment, the merge and the result                 *)

\* lines 382-404
MbStart ==
    /\ pc = "mb"
    /\ IF chunk = None THEN result' = Skipped("no_chunk") /\ pc' = "returned"
       ELSE IF too_short(chunk) THEN result' = Skipped("too_short") /\ pc' = "returned"
       ELSE result' = result /\ pc' = "shazam"
    /\ UNCHANGED <<existing_tracks, loc, calls, files, exc>>
    /\ UNCHANGED mergeArgs
    /\ UNCHANGED workerFixed

\* where the chain leaves to: the file-name search of lines 434-457 in
\* MusicBrainz-only mode, the enrichment otherwise
after_chain(found, attempted) ==
    IF current_mode = Some(MODE_MB_ONLY) /\ ~found /\ attempted THEN "mb_search" ELSE "enrich"

\* Shazam first: lines 207-214 and 406-415
ChainShazam ==
    /\ pc = "shazam"
    /\ LET shazam_enabled == ~config.disable_shazam
       IN  IF shazam_enabled /\ env.shazam_lib
           THEN /\ calls' = Bump(calls, "shazam")
                /\ \E answer \in ShazamAnswers :
                      /\ loc' = [loc EXCEPT !.shazam_result = answer]
                      /\ IF answer # None
                         THEN /\ mb_result' = MbDict(Val(answer).artist, Val(answer).title)
                              /\ pc' = "shazam_enhance"
                         ELSE /\ mb_result' = mb_result
                              /\ pc' = IF env.acoustid_lib THEN "acoustid"
                                       ELSE after_chain(FALSE, FALSE)
           ELSE /\ UNCHANGED <<calls, loc, mb_result>>
                /\ pc' = IF env.acoustid_lib THEN "acoustid" ELSE after_chain(FALSE, FALSE)
    /\ UNCHANGED <<existing_tracks, files, result, exc,
                   acr_result, mb_enhanced, external_meta, merged>>
    /\ UNCHANGED workerFixed

\* get_enhanced_metadata for Shazam's answer: lines 213 and 414
ChainShazamEnhance ==
    /\ pc = "shazam_enhance"
    /\ calls' = Bump(calls, "enhanced")
    /\ mb_enhanced' \in EnhancedAnswers
    /\ pc' = "enrich"
    /\ UNCHANGED <<existing_tracks, loc, files, result, exc,
                   acr_result, mb_result, external_meta, merged>>
    /\ UNCHANGED workerFixed

\* AcoustID when Shazam found nothing: lines 217-224 and 418-431
ChainAcoustid ==
    /\ pc = "acoustid"
    /\ calls' = Bump(calls, "acoustid")
    /\ \E answer \in AcoustidAnswers :
          LET acoustid_result == identify_with_acoustid(env.acoustid_lib, ACOUSTID_API_KEY, answer)
          IN  IF acoustid_result # None
              THEN /\ mb_result' = MbDict(Val(acoustid_result).artist, Val(acoustid_result).title)
                   /\ loc' = [loc EXCEPT !.recording_id = Val(acoustid_result).recording_id,
                                         !.aid_result = acoustid_result,
                                         !.acoustid_attempted = TRUE]
                   /\ pc' = "acoustid_enhance"
              ELSE /\ mb_result' = mb_result
                   /\ loc' = [loc EXCEPT !.acoustid_attempted = TRUE]
                   /\ pc' = after_chain(FALSE, TRUE)
    /\ UNCHANGED <<existing_tracks, files, result, exc,
                   acr_result, mb_enhanced, external_meta, merged>>
    /\ UNCHANGED workerFixed

\* get_enhanced_metadata for AcoustID's answer: lines 222 and 427-429
ChainAcoustidEnhance ==
    /\ pc = "acoustid_enhance"
    /\ calls' = Bump(calls, "enhanced")
    /\ mb_enhanced' \in EnhancedAnswers
    /\ pc' = "enrich"
    /\ UNCHANGED <<existing_tracks, loc, files, result, exc,
                   acr_result, mb_result, external_meta, merged>>
    /\ UNCHANGED workerFixed

\* the MusicBrainz text search on the file name: lines 434-454
MbTextSearch ==
    /\ pc = "mb_search"
    /\ \E answer \in SearchAnswers :
          LET hit == /\ answer.candidates # <<>>
                     /\ Truthy(answer.candidates[1].artist)
                     /\ Truthy(answer.candidates[1].title)
          IN  /\ calls' = BumpIf(calls, answer.searched, "mb_search")
              /\ IF hit
                 THEN /\ mb_result' = MbDict(answer.candidates[1].artist, answer.candidates[1].title)
                      /\ loc' = [loc EXCEPT !.recording_id = answer.candidates[1].recording_id]
                      /\ pc' = "mb_search_enhance"
                 ELSE /\ UNCHANGED <<mb_result, loc>>
                      /\ pc' = "enrich"
    /\ UNCHANGED <<existing_tracks, files, result, exc,
                   acr_result, mb_enhanced, external_meta, merged>>
    /\ UNCHANGED workerFixed

\* get_enhanced_metadata for the search's best candidate: lines 455-457
MbSearchEnhance ==
    /\ pc = "mb_search_enhance"
    /\ calls' = Bump(calls, "enhanced")
    /\ mb_enhanced' \in EnhancedAnswers
    /\ pc' = "enrich"
    /\ UNCHANGED <<existing_tracks, loc, files, result, exc,
                   acr_result, mb_result, external_meta, merged>>
    /\ UNCHANGED workerFixed

\* final_artist, final_title and the enrichment lookup: lines 226-230 and 460-468
TailEnrich ==
    /\ pc = "enrich"
    /\ LET first == IF acr_result # None THEN acr_result ELSE mb_result
           final_artist == Get(first, "artist")
           final_title == Get(first, "title")
       IN  IF Truthy(final_artist) /\ Truthy(final_title)
           THEN /\ calls' = Bump(calls, "external")
                /\ external_meta' \in ExternalAnswers
           ELSE /\ calls' = calls
                /\ external_meta' = NoExternalMeta
    /\ pc' = "bpm"
    /\ UNCHANGED <<existing_tracks, loc, files, result, exc,
                   acr_result, mb_result, mb_enhanced, merged>>
    /\ UNCHANGED workerFixed

\* _detect_bpm_if_needed(chunk, external_meta): lines 231 and 469, helper 76-101
TailDetectBpm ==
    /\ pc = "bpm"
    /\ LET use_local_bpm == ~config.disable_local_bpm
       IN  IF runs_detector(use_local_bpm, external_meta, chunk)
           THEN /\ calls' = Bump(calls, "bpm")
                /\ external_meta' = Some([Val(external_meta) EXCEPT !.local_bpm = chunk_tempo])
           ELSE /\ calls' = calls
                /\ external_meta' = Some([Val(external_meta) EXCEPT !.local_bpm = None])
    /\ pc' = "merge"
    /\ UNCHANGED <<existing_tracks, loc, files, result, exc,
                   acr_result, mb_result, mb_enhanced, merged>>
    /\ UNCHANGED workerFixed

\* merged = merge_identification_results(...) and the test of its artist
\* and title: lines 233-240 and 472-482
TailMerge ==
    /\ pc = "merge"
    /\ LET m == merge_identification_results(acr_result, mb_result, mb_enhanced, external_meta)
       IN  /\ merged' = Some(m)
           /\ IF Truthy(m.artist.value) /\ Truthy(m.title.value)
              THEN /\ loc' = [loc EXCEPT !.expected_filename =
                                    Some(ExpectedFilename(m.artist.value, m.title.value))]
                   /\ pc' = "check_existing"
              ELSE /\ loc' = loc
                   /\ pc' = "unidentified"
    /\ UNCHANGED <<existing_tracks, calls, files, result, exc,
                   acr_result, mb_result, mb_enhanced, external_meta>>
    /\ UNCHANGED workerFixed

\* sources_used[0].lower()
LowerName(n) ==
    CASE n = "ACRCloud" -> "acrcloud"
      [] n = "MusicBrainz" -> "musicbrainz"
      [] n = "iTunes" -> "itunes"
      [] n = "Deezer" -> "deezer"
      [] n = "Last.fm" -> "last.fm"

\* with existing_tracks_lock: if expected_filename in existing_tracks:
\* lines 241-249 and 483-492
TailCheckExisting ==
    /\ pc = "check_existing"
    /\ LET m == Val(merged)
       IN  IF Val(loc.expected_filename) \in existing_tracks.items
           THEN /\ result' = Some([NoResult EXCEPT
                                      !.status = "skipped", !.reason = Some("already_exists"),
                                      !.artist = m.artist.value, !.title = m.title.value,
                                      !.album = IF Truthy(m.album.value) THEN m.album.value
                                                ELSE Some(UnknownAlbum)])
                /\ pc' = "returned"
           ELSE /\ result' = result
                /\ pc' = "identified"
    /\ UNCHANGED <<existing_tracks, loc, calls, files, exc>>
    /\ UNCHANGED mergeArgs
    /\ UNCHANGED workerFixed

\* the identified result, the chunk exported outside preview mode, and the
\* file name added under the lock taken again: lines 251-277 and 494-521
TailIdentified ==
    /\ pc = "identified"
    /\ \E preview_mode \in BOOLEAN :
          LET m == Val(merged)
          IN  result' = Some([NoResult EXCEPT
                  !.status = "identified",
                  !.artist = m.artist.value, !.title = m.title.value,
                  !.album = IF Truthy(m.album.value) THEN m.album.value ELSE Some(UnknownAlbum),
                  !.identification_source =
                        IF m.sources_used # <<>> THEN Some(LowerName(m.sources_used[1]))
                        ELSE IF current_mode = Some(MODE_MB_ONLY) THEN Some("musicbrainz")
                        ELSE Some("unknown"),
                  !.enhanced_metadata = Some(build_enhanced_metadata(m)),
                  !.temp_flac = ~preview_mode])
    /\ existing_tracks' = [existing_tracks EXCEPT !.items = @ \cup {Val(loc.expected_filename)}]
    /\ pc' = "returned"
    /\ UNCHANGED <<loc, calls, files, exc>>
    /\ UNCHANGED mergeArgs
    /\ UNCHANGED workerFixed

\* the unidentified result, with a tempo detected once more: lines 279-312
\* and 524-559
TailUnidentified ==
    /\ pc = "unidentified"
    /\ \E path_exists \in BOOLEAN :
          LET use_local_bpm == ~config.disable_local_bpm
              detect == use_local_bpm /\ chunk # None
              local_bpm == IF detect THEN chunk_tempo ELSE None
          IN  IF path_exists
              THEN /\ result' = Skipped("already_exists")
                   /\ UNCHANGED <<calls, loc>>
              ELSE /\ calls' = BumpIf(calls, detect, "bpm")
                   /\ loc' = [loc EXCEPT !.local_bpm = local_bpm]
                   /\ result' = Some([NoResult EXCEPT
                          !.status = "unidentified",
                          !.detected_bpm =
                                IF local_bpm # None /\ Val(local_bpm).bpm # 0
                                THEN Some(Val(local_bpm).bpm) ELSE None,
                          !.bpm_confidence =
                                IF local_bpm # None /\ Val(local_bpm).bpm # 0
                                THEN Some(Val(local_bpm).confidence) ELSE None])
    /\ pc' = "returned"
    /\ UNCHANGED <<existing_tracks, files, exc>>
    /\ UNCHANGED mergeArgs
    /\ UNCHANGED workerFixed

-----------------------------------------------------------------------------
(* process_single_track_dual: mixsplitr_processing.py 566-777 *)

\* the confidence of an ACRCloud or Shazam match, and the priorities that
\* break a tie: lines 616, 638, 671-681
DEFAULT_CONFIDENCE == 85
PRIORITY_SHAZAM == 3
PRIORITY_ACRCLOUD == 2
PRIORITY_ACOUSTID == 1

DualCandidate(src, label, data, confidence, priority, rid) ==
    [src |-> src, label |-> label, data |-> data, confidence |-> confidence,
     priority |-> priority, recording_id |-> rid]

\* .get('album', 'Unknown Album')
AlbumOr(a) == IF a = None THEN Some(UnknownAlbum) ELSE a
Winner(a, t, al) == Some([artist |-> a, title |-> t, album |-> al])

\* the candidates in the order they are appended: lines 667-682
dual_candidates(l) ==
    AppendIf(AppendIf(AppendIf(<<>>,
        l.shazam_result # None,
        DualCandidate("shazam", "Shazam", l.shazam_result, l.shazam_confidence,
                      PRIORITY_SHAZAM, None)),
        l.acr_candidate # None,
        DualCandidate("acrcloud", "ACRCloud", l.acr_candidate, l.acr_confidence,
                      PRIORITY_ACRCLOUD, None)),
        l.aid_result # None,
        DualCandidate("acoustid", "AcoustID", l.aid_result, l.aid_confidence,
                      PRIORITY_ACOUSTID, l.recording_id))

\* the tie-break turned round: equal confidences go to the lower priority
KeyAtLeast_lower_priority(c, d) ==
    c.confidence > d.confidence \/ (c.confidence = d.confidence /\ c.priority <= d.priority)

\* (confidence, priority) compared as tuples
KeyAtLeast(c, d) ==
    c.confidence > d.confidence \/ (c.confidence = d.confidence /\ c.priority >= d.priority)

\* max(candidates, key=lambda c: (c["confidence"], c["priority"])): line 685
best_candidate(cands) ==
    cands[CHOOSE i \in 1..Len(cands) :
            /\ \A j \in 1..Len(cands) : KeyAtLeast(cands[i], cands[j])
            /\ \A j \in 1..(i - 1) : ~KeyAtLeast(cands[j], cands[i])]

\* lines 661-701: the locals after the winner is picked
pick_winner(l) ==
    LET candidates == dual_candidates(l)
    IN  IF candidates # <<>>
        THEN LET best == best_candidate(candidates)
             IN  [l EXCEPT !.winner = best.data,
                           !.winner_source = Some(best.label),
                           !.winner_confidence = best.confidence,
                           !.recording_id = best.recording_id]
        ELSE [l EXCEPT !.winner_confidence = 0]

\* AcoustID run only when Shazam found nothing, as the fallback of line 217
dual_runs_acoustid_as_fallback(available, shazam_result) ==
    available /\ shazam_result = None
\* line 643: if ACOUSTID_AVAILABLE, whatever ACRCloud and Shazam answered
dual_runs_acoustid(available, shazam_result) == available

\* lines 577-589
DualStart ==
    /\ pc = "dual"
    /\ IF chunk = None THEN result' = Skipped("no_chunk") /\ pc' = "returned"
       ELSE IF too_short(chunk) THEN result' = Skipped("too_short") /\ pc' = "returned"
       ELSE result' = result /\ pc' = "dual_export"
    /\ UNCHANGED <<existing_tracks, loc, calls, files, exc>>
    /\ UNCHANGED mergeArgs
    /\ UNCHANGED workerFixed

\* temp_name = _export_id_sample(chunk, file_num, i, prefix="temp_dual"): line 592
DualExportSample ==
    /\ pc = "dual_export"
    /\ files' = files \cup {"temp_dual"}
    /\ calls' = Bump(calls, "export")
    /\ pc' = "dual_wait"
    /\ UNCHANGED <<existing_tracks, loc, result, exc>>
    /\ UNCHANGED mergeArgs
    /\ UNCHANGED workerFixed

\* rate_limiter.wait(): line 602
DualRateLimit ==
    /\ pc = "dual_wait"
    /\ calls' = Bump(calls, "wait")
    /\ pc' = "dual_recognize"
    /\ UNCHANGED <<existing_tracks, loc, files, result, exc>>
    /\ UNCHANGED mergeArgs
    /\ UNCHANGED workerFixed

\* the ACRCloud lookup inside try/except: lines 606-624.  Whatever it
\* raises, the attribute error of a recognizer that is None included, is a miss.
DualRecognize ==
    /\ pc = "dual_recognize"
    /\ calls' = BumpIf(Bump(calls, "recognize"), recognizer # None, "acrcloud")
    /\ IF recognizer = None
       THEN loc' = loc
       ELSE \E answer \in AcrAnswers :
               IF answer.kind = "response" /\ acr_matched(answer)
               THEN loc' = [loc EXCEPT
                               !.res = Some(answer),
                               !.acr_candidate = Winner(answer.music[1].artist,
                                                        answer.music[1].title,
                                                        AlbumOr(answer.music[1].album)),
                               !.acr_confidence = IF answer.score = None THEN DEFAULT_CONFIDENCE
                                                  ELSE Val(answer.score)]
               ELSE loc' = loc
    /\ pc' = "dual_shazam"
    /\ UNCHANGED <<existing_tracks, files, result, exc>>
    /\ UNCHANGED mergeArgs
    /\ UNCHANGED workerFixed

\* lines 627-640
DualShazam ==
    /\ pc = "dual_shazam"
    /\ LET shazam_enabled == ~config.disable_shazam
       IN  IF shazam_enabled /\ env.shazam_lib
           THEN /\ calls' = Bump(calls, "shazam")
                /\ \E answer \in ShazamAnswers :
                      IF answer # None /\ Truthy(Val(answer).title)
                      THEN loc' = [loc EXCEPT
                                      !.shazam_result = Winner(Val(answer).artist, Val(answer).title,
                                                               AlbumOr(Val(answer).album)),
                                      !.shazam_confidence = DEFAULT_CONFIDENCE]
                      ELSE loc' = loc
           ELSE UNCHANGED <<calls, loc>>
    /\ pc' = "dual_acoustid"
    /\ UNCHANGED <<existing_tracks, files, result, exc>>
    /\ UNCHANGED mergeArgs
    /\ UNCHANGED workerFixed

\* lines 643-655
DualAcoustid ==
    /\ pc = "dual_acoustid"
    /\ IF dual_runs_acoustid(env.acoustid_lib, loc.shazam_result)
       THEN /\ calls' = Bump(calls, "acoustid")
            /\ \E answer \in AcoustidAnswers :
                  LET acoustid_result ==
                          identify_with_acoustid(env.acoustid_lib, ACOUSTID_API_KEY, answer)
                  IN  IF acoustid_result # None /\ Truthy(Val(acoustid_result).title)
                      THEN loc' = [loc EXCEPT
                                      !.aid_result = Winner(Val(acoustid_result).artist,
                                                            Val(acoustid_result).title,
                                                            Some(UnknownAlbum)),
                                      !.recording_id = Val(acoustid_result).recording_id,
                                      !.aid_confidence = Val(acoustid_result).score]
                      ELSE loc' = loc
       ELSE UNCHANGED <<calls, loc>>
    /\ pc' = "dual_pick"
    /\ UNCHANGED <<existing_tracks, files, result, exc>>
    /\ UNCHANGED mergeArgs
    /\ UNCHANGED workerFixed

\* the sample removed and the winner picked: lines 658-708
DualPickWinner ==
    /\ pc = "dual_pick"
    /\ files' = files \ {"temp_dual"}
    /\ loc' = pick_winner(loc)
    /\ pc' = IF loc'.winner = None THEN "dual_unidentified"
             ELSE IF Truthy(loc'.recording_id) THEN "dual_enhance"
             ELSE "dual_enrich"
    /\ UNCHANGED <<existing_tracks, calls, result, exc>>
    /\ UNCHANGED mergeArgs
    /\ UNCHANGED workerFixed

\* mb_enhanced = get_enhanced_metadata(artist, title, recording_id): line 708
DualEnhance ==
    /\ pc = "dual_enhance"
    /\ calls' = Bump(calls, "enhanced")
    /\ mb_enhanced' \in EnhancedAnswers
    /\ pc' = "dual_enrich"
    /\ UNCHANGED <<existing_tracks, loc, files, result, exc,
                   acr_result, mb_result, external_meta, merged>>
    /\ UNCHANGED workerFixed

\* external_meta = get_all_external_metadata(artist, title) or {}: line 711.
\* With artist None each lookup raises inside its own try block
\* (mixsplitr_metadata.py 70, 114, 213) and answers None.
DualEnrich ==
    /\ pc = "dual_enrich"
    /\ calls' = Bump(calls, "external")
    /\ external_meta' \in IF Val(loc.winner).artist = None
                          THEN {NoExternalMeta} ELSE ExternalAnswers
    /\ pc' = "dual_bpm"
    /\ UNCHANGED <<existing_tracks, loc, files, result, exc,
                   acr_result, mb_result, mb_enhanced, merged>>
    /\ UNCHANGED workerFixed

\* _detect_bpm_if_needed(chunk, external_meta): line 712, helper 76-101
DualDetectBpm ==
    /\ pc = "dual_bpm"
    /\ LET use_local_bpm == ~config.disable_local_bpm
       IN  IF runs_detector(use_local_bpm, external_meta, chunk)
           THEN /\ calls' = Bump(calls, "bpm")
                /\ external_meta' = Some([Val(external_meta) EXCEPT !.local_bpm = chunk_tempo])
           ELSE /\ calls' = calls
                /\ external_meta' = Some([Val(external_meta) EXCEPT !.local_bpm = None])
    /\ pc' = "dual_merge"
    /\ UNCHANGED <<existing_tracks, loc, files, result, exc,
                   acr_result, mb_result, mb_enhanced, merged>>
    /\ UNCHANGED workerFixed

\* the winner merged as the MusicBrainz guess, and the file name tested and
\* added under one hold of the lock: lines 714-723
DualMerge ==
    /\ pc = "dual_merge"
    /\ LET winner == Val(loc.winner)
           acr_for_merge ==
                IF loc.winner_source = Some("ACRCloud")
                THEN IF loc.acr_candidate = None THEN None
                     ELSE AcrDict(Val(loc.acr_candidate).artist, Val(loc.acr_candidate).title,
                                  Val(loc.acr_candidate).album)
                ELSE None
           mb_for_merge == Some([artist |-> winner.artist, title |-> winner.title,
                                 album |-> winner.album])
           expected_filename == ExpectedFilename(winner.artist, winner.title)
       IN  /\ acr_result' = acr_for_merge
           /\ mb_result' = mb_for_merge
           /\ merged' = Some(merge_identification_results(acr_for_merge, mb_for_merge,
                                                         mb_enhanced, external_meta))
           /\ loc' = [loc EXCEPT !.expected_filename = Some(expected_filename)]
           /\ IF expected_filename \in existing_tracks.items
              THEN /\ result' = Some([NoResult EXCEPT
                                         !.status = "skipped", !.reason = Some("duplicate"),
                                         !.artist = winner.artist, !.title = winner.title])
                   /\ existing_tracks' = existing_tracks
                   /\ pc' = "returned"
              ELSE /\ result' = result
                   /\ existing_tracks' = [existing_tracks EXCEPT !.items = @ \cup {expected_filename}]
                   /\ pc' = "dual_identified"
    /\ UNCHANGED <<calls, files, exc, mb_enhanced, external_meta>>
    /\ UNCHANGED workerFixed

\* lines 725-758; the confidence is the winner's, in hundredths
DualIdentified ==
    /\ pc = "dual_identified"
    /\ \E preview_mode \in BOOLEAN :
          LET winner == Val(loc.winner)
          IN  result' = Some([NoResult EXCEPT
                  !.status = "identified",
                  !.artist = winner.artist, !.title = winner.title, !.album = winner.album,
                  !.identification_source = Some("dual"),
                  !.confidence = Some(loc.winner_confidence),
                  !.enhanced_metadata = Some(build_enhanced_metadata(Val(merged))),
                  !.temp_flac = ~preview_mode])
    /\ pc' = "returned"
    /\ UNCHANGED <<existing_tracks, loc, calls, files, exc>>
    /\ UNCHANGED mergeArgs
    /\ UNCHANGED workerFixed

\* lines 760-777
DualUnidentified ==
    /\ pc = "dual_unidentified"
    /\ result' = Some([NoResult EXCEPT !.status = "unidentified"])
    /\ pc' = "returned"
    /\ UNCHANGED <<existing_tracks, loc, calls, files, exc>>
    /\ UNCHANGED mergeArgs
    /\ UNCHANGED workerFixed

-----------------------------------------------------------------------------

NextRun ==
    \/ MainGetConfig \/ MainResolveMode \/ MainValidate \/ MainSetup \/ MainDispatch
    \/ MainCollect
    \/ ManualStart \/ ManualFinish
    \/ AcrStart \/ AcrExportSample \/ AcrRateLimit \/ AcrRecognize \/ AcrReadAnswer
    \/ AcrEnhance \/ AcrCrossCheck \/ AcrEnhanceById
    \/ MbStart \/ ChainShazam \/ ChainShazamEnhance \/ ChainAcoustid \/ ChainAcoustidEnhance
    \/ MbTextSearch \/ MbSearchEnhance
    \/ TailEnrich \/ TailDetectBpm \/ TailMerge \/ TailCheckExisting \/ TailIdentified
    \/ TailUnidentified
    \/ DualStart \/ DualExportSample \/ DualRateLimit \/ DualRecognize \/ DualShazam
    \/ DualAcoustid \/ DualPickWinner \/ DualEnhance \/ DualEnrich \/ DualDetectBpm
    \/ DualMerge \/ DualIdentified \/ DualUnidentified

SpecRun == InitRun /\ [][NextRun]_vars

-----------------------------------------------------------------------------
(* Properties of a run *)

\* a key counts as configured when it is a non-empty string
C9_HasKey(k) == k # None /\ Val(k) # <<>>

\* C9: the mode get_mode returns for the configuration main hands it: manual
\* without any key; MusicBrainz-only for a configured 'acrcloud' that has only
\* the AcoustID key; for a configured dual mode with exactly one key, the
\* single mode of that key; so that a returned 'acrcloud' has the ACRCloud
\* key and a returned dual mode has both keys.
C9_ModeResolution ==
    [][(pc = "configured" /\ pc' = "validate") =>
          LET returned == Val(current_mode')
              configured == Val(config.mode)
              commercial == C9_HasKey(config.access_key)
              open == C9_HasKey(config.acoustid_api_key)
          IN  /\ (~commercial /\ ~open) => returned = "manual_search_only"
              /\ (configured = "acrcloud" /\ ~commercial /\ open) => returned = "musicbrainz_only"
              /\ (configured = "dual_best_match" /\ commercial /\ ~open) => returned = "acrcloud"
              /\ (configured = "dual_best_match" /\ ~commercial /\ open) =>
                    returned = "musicbrainz_only"
              /\ returned = "acrcloud" => commercial
              /\ returned = "dual_best_match" => commercial /\ open]_vars

\* dual mode configured with an empty ACRCloud key and an AcoustID key has
\* been resolved to MusicBrainz-only
C9_Witness ==
    /\ pc = "validate"
    /\ config.mode = Some("dual_best_match")
    /\ config.access_key = Some(<<>>) /\ config.acoustid_api_key = Some(<<"k">>)
    /\ current_mode = Some("musicbrainz_only")

\* the positions of a run at which no worker has gone past its length test
C10_NotPastTheTest ==
    {"start", "configured", "validate", "setup", "dispatch", "exited",
     "manual", "acr", "mb", "dual", "returned", "collected"}

\* C10: in every mode a chunk shorter than 10 seconds never gets past the
\* worker's length test: no sample is exported, no rate limiter waited on,
\* no backend or enrichment source called, and what the worker returns is
\* skipped with reason too_short; a chunk of exactly 10 seconds is never
\* returned as too_short.
C10_TooShortSkippedFirst ==
    chunk # None =>
        /\ Val(chunk) < 10000 =>
              /\ pc \in C10_NotPastTheTest
              /\ \A k \in DOMAIN calls : calls[k] = 0
              /\ files = {}
              /\ exc = None
              /\ pc \in {"returned", "collected"} =>
                    /\ result # None
                    /\ Val(result).status = "skipped"
                    /\ Val(result).reason = Some("too_short")
        /\ (Val(chunk) = 10000 /\ result # None) => Val(result).reason # Some("too_short")

\* the dual-mode worker has returned too_short for a chunk of 9.999 seconds
C10_Witness ==
    /\ pc = "returned" /\ current_mode = Some("dual_best_match")
    /\ chunk = Some(9999)
    /\ Val(result).status = "skipped" /\ Val(result).reason = Some("too_short")
    /\ calls.export = 0 /\ calls.wait = 0

\* C1: in ACRCloud mode, for a chunk of at least 10 seconds, a recognizer
\* call that raises does not end process_single_track: the exception does not
\* reach main, and what the worker returns is identified, unidentified or
\* skipped.
C1_RecognizerFailureIsolated ==
    (current_mode = Some("acrcloud") /\ chunk # None /\ Val(chunk) >= 10000) =>
        /\ pc \notin {"raised", "aborted"}
        /\ exc = None
        /\ pc \in {"returned", "collected"} =>
              result # None /\ Val(result).status \in {"identified", "unidentified", "skipped"}

\* C8: in manual mode, for a chunk of at least 10 seconds and the library
\* main scanned, process_single_track_manual calls no backend, does not
\* raise, and returns 'unidentified'.
C8_ManualReturnsUnidentified ==
    (current_mode = Some("manual_search_only") /\ chunk # None /\ Val(chunk) >= 10000) =>
        /\ pc \notin {"raised", "aborted"}
        /\ exc = None
        /\ \A k \in DOMAIN calls : calls[k] = 0
        /\ pc \in {"returned", "collected"} =>
              result # None /\ Val(result).status = "unidentified"

C11_NetworkModes == {MODE_ACRCLOUD, MODE_MB_ONLY, MODE_DUAL}

\* C11: in each network mode, with local BPM estimation enabled, a result
\* with status 'unidentified' carries the tempo the estimator finds in the
\* chunk as detected_bpm, and no detected_bpm when the estimator finds none.
C11_UnidentifiedCarriesBpm ==
    ( /\ pc = "returned"
      /\ Val(current_mode) \in C11_NetworkModes
      /\ ~config.disable_local_bpm
      /\ Val(result).status = "unidentified" )
    => Val(result).detected_bpm =
          IF chunk_tempo = None THEN None ELSE Some(Val(chunk_tempo).bpm)

\* ---------------------------------------------------------------------
\* Functions exercised on their own (SpecCall): the arguments are drawn in
\* Init, one action per function applies it
\* ---------------------------------------------------------------------

Call(fn, a) == Some([fn |-> fn, a |-> a])

\* the three backends' outcomes as process_single_track_dual holds them at
\* line 660: Shazam succeeds at 85 only, ACRCloud at its score, AcoustID at
\* score * 100
AcrScores == {70, 85, 100}
AidScores == {51, 85, 100}
PickInputs ==
    { [NoLocals EXCEPT !.shazam_result = sh.data, !.shazam_confidence = sh.confidence,
                       !.acr_candidate = ac.data, !.acr_confidence = ac.confidence,
                       !.aid_result = ai.data, !.aid_confidence = ai.confidence,
                       !.recording_id = ai.rid] :
        sh \in { [data |-> None, confidence |-> 0],
                 [data |-> Winner(Some(<<"A">>), Some(<<"1">>), Some(UnknownAlbum)),
                  confidence |-> DEFAULT_CONFIDENCE] },
        ac \in { [data |-> None, confidence |-> 0] }
               \cup { [data |-> Winner(Some(<<"a">>), Some(<<"1">>), Some("Album A")),
                       confidence |-> c] : c \in AcrScores },
        ai \in { [data |-> None, confidence |-> 0, rid |-> None] }
               \cup { [data |-> Winner(Some(<<"a">>), Some(<<"A">>), Some(UnknownAlbum)),
                       confidence |-> c, rid |-> Some("rid-1")] : c \in AidScores } }

\* what acoustid.match yields: an error, or up to two results whose scores
\* lie around the threshold
MatchScores == {30, 50, 51, 90}
MatchResult(score) ==
    Candidate(score, Some(<<"rid">>), Some(<<"1">>), Some(<<"A">>))
MatchAnswers ==
    {AcoustidError, AcoustidResults(<<>>)}
    \cup { AcoustidResults(<<MatchResult(x)>>) : x \in MatchScores }
    \cup { AcoustidResults(<<MatchResult(x), MatchResult(y)>>) : x, y \in MatchScores }
AcoustidInputs ==
    { [available |-> av, api_key |-> k, answer |-> an] :
        av \in BOOLEAN, k \in {None, SomeKey}, an \in MatchAnswers }

\* detect_bpm_librosa: mixsplitr_audio.py 32-137.  The tempo beat_track
\* estimates is a float: it is held in half beats per minute, so that
\* round() has halves to round

\* int(round(x)) of x = halves / 2: Python rounds a half to the even neighbour
round_half_even(halves) ==
    LET q == halves \div 2
    IN  IF halves % 2 = 0 THEN q
        ELSE IF q % 2 = 0 THEN q ELSE q + 1

LOW_BPM == 70
HIGH_BPM == 180

\* the correction repeated until the tempo is in range
RECURSIVE octave_correction_repeated(_)
octave_correction_repeated(bpm) ==
    IF bpm > 0 /\ bpm < LOW_BPM THEN octave_correction_repeated(bpm * 2)
    ELSE IF bpm > HIGH_BPM THEN octave_correction_repeated(bpm \div 2)
    ELSE bpm

\* lines 107-110
octave_correction(bpm) ==
    IF bpm < LOW_BPM THEN bpm * 2
    ELSE IF bpm > HIGH_BPM THEN bpm \div 2
    ELSE bpm

MIN_BEATS == 4
CONFIDENCE_FLOOR == 50
CONFIDENCE_CEILING == 95
MIN_CONFIDENCE == 60

Max(a, b) == IF a > b THEN a ELSE b

\* lines 113-122: the confidence in hundredths, from the number of beats and
\* the coefficient of variation of the beat intervals (in hundredths)
beat_confidence(beats, cv) ==
    IF beats > MIN_BEATS
    THEN Max(CONFIDENCE_FLOOR, Min(CONFIDENCE_CEILING, 100 - cv))
    ELSE CONFIDENCE_FLOOR

detect_bpm_librosa(a) ==
    IF ~a.librosa THEN None
    ELSE IF a.raises THEN None
    ELSE LET bpm == octave_correction(round_half_even(a.tempo_halves))
             confidence == beat_confidence(a.beats, a.cv)
         IN  IF bpm > 0 /\ confidence >= MIN_CONFIDENCE
             THEN LocalBpm(bpm, confidence * 10)
             ELSE None

\* the highest tempo beat_track is taken to estimate
MaxTempo == 400
BeatPool ==
    { [beats |-> MIN_BEATS, cv |-> 0], [beats |-> MIN_BEATS + 1, cv |-> 0],
      [beats |-> MIN_BEATS + 1, cv |-> 40], [beats |-> MIN_BEATS + 1, cv |-> 41],
      [beats |-> MIN_BEATS + 1, cv |-> 100] }
BpmInputs ==
    { [librosa |-> FALSE, raises |-> FALSE, tempo_halves |-> 0, beats |-> 0, cv |-> 0],
      [librosa |-> TRUE, raises |-> TRUE, tempo_halves |-> 0, beats |-> 0, cv |-> 0] }
    \cup { [librosa |-> TRUE, raises |-> FALSE, tempo_halves |-> h,
            beats |-> b.beats, cv |-> b.cv] :
            h \in 0..(2 * MaxTempo), b \in BeatPool }

\* the external metadata getters: mixsplitr_metadata.py 58-277.  What a
\* getter's try block does is either to raise or to return a value
Raise == [raised |-> TRUE, value |-> None]
Return(v) == [raised |-> FALSE, value |-> v]

\* how a source's HTTP request ends
Failures == {"network_failure", "timeout", "malformed"}
Outcomes == {"success", "no_match"} \cup Failures

\* the try block without its handler
except_missing(body) == body
\* except: pass, followed by return None
except_pass(body) == IF body.raised THEN Return(None) ELSE body

\* requests.get(url, timeout=5).json() raises on a failure
itunes_body(outcome) ==
    IF outcome \in Failures THEN Raise
    ELSE IF outcome = "success" THEN Return(SomeItunes)
    ELSE Return(None)
get_itunes_metadata(outcome) == except_pass(itunes_body(outcome))

\* the track and album requests have handlers of their own (124-143): when
\* they fail the match is returned without bpm, genre and year
DeezerOutcomes == Outcomes \cup {"success_without_details"}
DeezerWithoutDetails == DeezerDict(None, None, Some(<<"Album D">>), None)
deezer_body(outcome) ==
    IF outcome \in Failures THEN Raise
    ELSE IF outcome = "success" THEN Return(DeezerWithBpm)
    ELSE IF outcome = "success_without_details" THEN Return(DeezerWithoutDetails)
    ELSE Return(None)
get_deezer_metadata(outcome) == except_pass(deezer_body(outcome))

\* Last.fm answers {'error': ...} for an invalid key or a rate limit
LastfmOutcomes == Outcomes \cup {"api_error"}
lastfm_body(outcome) ==
    IF outcome \in Failures THEN Raise
    ELSE IF outcome = "success" THEN Return(SomeLastfm)
    ELSE Return(None)
get_lastfm_metadata(lastfm_key, outcome) ==
    IF ~Truthy(lastfm_key) THEN Return(None)
    ELSE except_pass(lastfm_body(outcome))

\* lines 271-277: the dict display evaluates the three calls in order
get_all_external_metadata(a) ==
    LET itunes == get_itunes_metadata(a.itunes)
        deezer == get_deezer_metadata(a.deezer)
        lastfm == get_lastfm_metadata(a.lastfm_key, a.lastfm)
    IN  IF itunes.raised \/ deezer.raised \/ lastfm.raised THEN Raise
        ELSE Return(Some([itunes |-> itunes.value, deezer |-> deezer.value,
                          lastfm |-> lastfm.value]))

ExternalInputs ==
    { [itunes |-> i, deezer |-> d, lastfm |-> l, lastfm_key |-> k] :
        i \in Outcomes, d \in DeezerOutcomes, l \in LastfmOutcomes, k \in KeyPool }

\* the MusicBrainz text search of process_single_track_mb_only:
\* mixsplitr_processing.py 434-445.  A file name is a sequence of characters

\* os.path.basename: what follows the last "/"
RECURSIVE basename(_)
basename(path) ==
    IF \E i \in 1..Len(path) : path[i] = "/"
    THEN basename(Tail(path))
    ELSE path

\* os.path.splitext(...)[0]: the name up to its last ".", a leading "." apart
splitext_root(name) ==
    LET dots == { i \in 2..Len(name) : name[i] = "." /\ \E j \in 1..(i - 1) : name[j] # "." }
    IN  IF dots = {} THEN name
        ELSE SubSeq(name, 1, (CHOOSE i \in dots : \A j \in dots : j <= i) - 1)

IsSeparatorChar(c) == c \in {"_", "-"}

\* re.sub(r'[_\-]+', ' ', query): every run of "_" and "-" becomes one space
RECURSIVE sub_separators(_, _)
sub_separators(s, in_run) ==
    IF s = <<>> THEN <<>>
    ELSE IF IsSeparatorChar(Head(s))
         THEN (IF in_run THEN <<>> ELSE <<" ">>) \o sub_separators(Tail(s), TRUE)
         ELSE <<Head(s)>> \o sub_separators(Tail(s), FALSE)

\* str.strip()
RECURSIVE strip(_)
strip(s) ==
    IF s = <<>> THEN s
    ELSE IF Head(s) = " " THEN strip(Tail(s))
    ELSE IF s[Len(s)] = " " THEN strip(SubSeq(s, 1, Len(s) - 1))
    ELSE s

\* sub in s
Contains(s, sub) ==
    \E i \in 1..(Len(s) - Len(sub) + 1) : SubSeq(s, i, i + Len(sub) - 1) = sub
\* s.startswith(prefix)
StartsWith(s, prefix) == Len(s) >= Len(prefix) /\ SubSeq(s, 1, Len(prefix)) = prefix

MIN_QUERY_LEN == 10
GenericPrefixes ==
    { <<"f", "i", "l", "e">>, <<"t", "r", "a", "c", "k">>, <<"a", "u", "d", "i", "o">>,
      <<"r", "e", "c", "o", "r", "d", "i", "n", "g">> }

\* line 441: ' - ' in query or '_-_' in basename or '-' in query
has_separator(name, query) ==
    \/ Contains(query, <<" ", "-", " ">>)
    \/ Contains(name, <<"_", "-", "_">>)
    \/ Contains(query, <<"-">>)

\* lines 435-445: the query made of the file name, and whether
\* musicbrainz_search_recordings is called with it
text_search(original_file) ==
    IF original_file = <<>> THEN [query |-> <<>>, searched |-> FALSE]
    ELSE LET name == basename(original_file)
             query == strip(sub_separators(splitext_root(name), FALSE))
             is_long_enough == Len(query) > MIN_QUERY_LEN
             looks_like_generic == \E g \in GenericPrefixes : StartsWith(StrLower(query), g)
         IN  [query |-> query,
              searched |-> /\ query # <<>>
                           /\ has_separator(name, query)
                           /\ is_long_enough
                           /\ ~looks_like_generic]

\* chunk_data['original_file']: the path of the file the chunk was cut from
OriginalFiles ==
    { <<"/", "m", "i", "x", "e", "s", "/", "A", "r", "t", "i", "s", "t", " ", "-", " ", "t", "i", "t", "l", "e", " ", "o", "n", "e", ".", "m", "p", "3">>,
      <<"A", "r", "t", "i", "s", "t", "_", "-", "_", "t", "i", "t", "l", "e", "_", "o", "n", "e", ".", "m", "p", "3">>,
      <<"A", "r", "t", "i", "s", "t", "-", "t", "i", "t", "l", "e", "-", "o", "n", "e", ".", "f", "l", "a", "c">>,
      <<"A", "r", "t", "i", "s", "t", " ", "t", "i", "t", "l", "e", " ", "o", "n", "e", ".", "m", "p", "3">>,
      <<"A", "u", "d", "i", "o", "_", "-", "_", "t", "i", "t", "l", "e", "_", "o", "n", "e", ".", "w", "a", "v">>,
      <<"t", "r", "a", "c", "k", "_", "-", "_", "0", "1", "2", "3", "4", "5", "6", "7", "8", "9", ".", "w", "a", "v">>,
      <<"a", "_", "-", "_", "b", ".", "m", "p", "3">>,
      <<"A", "r", "t", "_", "-", "_", "t", "i", "t", "l", "e", "s", ".", "m", "p", "3">>,
      <<"A", "r", "t", "_", "-", "_", "t", "i", "t", "l", "e", ".", "m", "p", "3">>,
      <<>> }

InitCall ==
    /\ args \in { Call("pick_winner", l) : l \in PickInputs }
               \cup { Call("text_search", [original_file |-> f]) : f \in OriginalFiles }
               \cup { Call("get_all_external_metadata", a) : a \in ExternalInputs }
               \cup { Call("identify_with_acoustid", a) : a \in AcoustidInputs }
               \cup { Call("detect_bpm_librosa", a) : a \in BpmInputs }
    /\ ret = None
    /\ fpc = "ready"
    /\ MatchIdle
    /\ MergeIdle
    /\ RunIdle
    /\ ThreadsIdle

\* process_single_track_dual, lines 661-701
CallPickWinner ==
    /\ fpc = "ready"
    /\ Val(args).fn = "pick_winner"
    /\ ret' = Some(pick_winner(Val(args).a))
    /\ fpc' = "done"
    /\ UNCHANGED <<args, matchVars, mergeVars, runVars, threadVars>>

\* identify_with_acoustid: mixsplitr_identify.py 207-357
CallIdentifyWithAcoustid ==
    /\ fpc = "ready"
    /\ Val(args).fn = "identify_with_acoustid"
    /\ LET a == Val(args).a
       IN  ret' = Some(identify_with_acoustid(a.available, a.api_key, a.answer))
    /\ fpc' = "done"
    /\ UNCHANGED <<args, matchVars, mergeVars, runVars, threadVars>>

\* detect_bpm_librosa: mixsplitr_audio.py 32-137
CallDetectBpmLibrosa ==
    /\ fpc = "ready"
    /\ Val(args).fn = "detect_bpm_librosa"
    /\ ret' = Some(detect_bpm_librosa(Val(args).a))
    /\ fpc' = "done"
    /\ UNCHANGED <<args, matchVars, mergeVars, runVars, threadVars>>

\* get_all_external_metadata: mixsplitr_metadata.py 271-277
CallGetAllExternalMetadata ==
    /\ fpc = "ready"
    /\ Val(args).fn = "get_all_external_metadata"
    /\ ret' = Some(get_all_external_metadata(Val(args).a))
    /\ fpc' = "done"
    /\ UNCHANGED <<args, matchVars, mergeVars, runVars, threadVars>>

\* process_single_track_mb_only, lines 434-445
CallTextSearch ==
    /\ fpc = "ready"
    /\ Val(args).fn = "text_search"
    /\ ret' = Some(text_search(Val(args).a.original_file))
    /\ fpc' = "done"
    /\ UNCHANGED <<args, matchVars, mergeVars, runVars, threadVars>>

NextCall ==
    \/ CallPickWinner
    \/ CallTextSearch
    \/ CallGetAllExternalMetadata
    \/ CallIdentifyWithAcoustid
    \/ CallDetectBpmLibrosa

SpecCall == InitCall /\ [][NextCall]_vars

Called(fn) == fpc = "done" /\ Val(args).fn = fn

\* the backends that succeeded, with the confidence and the rank the claim
\* gives them
C12_Successes(l) ==
    { b \in { [label |-> "Shazam", data |-> l.shazam_result,
               confidence |-> l.shazam_confidence, rank |-> 3],
              [label |-> "ACRCloud", data |-> l.acr_candidate,
               confidence |-> l.acr_confidence, rank |-> 2],
              [label |-> "AcoustID", data |-> l.aid_result,
               confidence |-> l.aid_confidence, rank |-> 1] } : b.data # None }

\* C12: in dual mode the winner is a successful backend whose confidence is
\* the highest among the successful ones; among those of equal confidence it
\* is Shazam before ACRCloud before AcoustID; and there is no winner only when
\* no backend succeeded.
C12_WinnerIsBest ==
    Called("pick_winner") =>
        LET succ == C12_Successes(Val(args).a)
            r == Val(ret)
        IN  IF succ = {}
            THEN r.winner = None
            ELSE \E b \in succ :
                    /\ r.winner = b.data
                    /\ r.winner_source = Some(b.label)
                    /\ r.winner_confidence = b.confidence
                    /\ \A c \in succ : c.confidence <= b.confidence
                    /\ \A c \in succ : c.confidence = b.confidence => c.rank <= b.rank

\* all three backends succeed with the same confidence and Shazam wins
C12_Witness ==
    /\ Called("pick_winner")
    /\ Cardinality(C12_Successes(Val(args).a)) = 3
    /\ \A b \in C12_Successes(Val(args).a) : b.confidence = DEFAULT_CONFIDENCE
    /\ Val(ret).winner_source = Some("Shazam")

\* C13: identify_with_acoustid returns a match only when a result's score is
\* strictly above 0.5, and then the first such result; when every result has
\* a score of at most 0.5, exactly 0.5 included, it returns None.
C13_StrictScoreThreshold ==
    Called("identify_with_acoustid") =>
        LET results == Val(args).a.answer.results
            found == Val(ret)
            above == { i \in 1..Len(results) : results[i].score * 2 > 100 }
        IN  /\ found # None =>
                /\ above # {}
                /\ \E i \in above :
                      /\ \A j \in above : i <= j
                      /\ Val(found).score = results[i].score
                      /\ Val(found).title = results[i].title
            /\ above = {} => found = None

\* a result at exactly 0.5 is passed over and the next one, just above, is
\* returned
C13_Witness ==
    /\ Called("identify_with_acoustid")
    /\ Len(Val(args).a.answer.results) = 2
    /\ Val(args).a.answer.results[1].score * 2 = 100
    /\ Val(ret) # None
    /\ Val(Val(ret)).score = Val(args).a.answer.results[2].score

\* ---------------------------------------------------------------------
\* identify_with_acoustid called by the worker threads of one process
\* (SpecWarn): the module flag _default_key_warning_shown is shared
\* ---------------------------------------------------------------------

NumThreads == 2
MaxCalls == 2
Threads == 1..NumThreads

NoEffects == [warning |-> 0, export |-> 0, request |-> 0]
Effect(e, what) == [e EXCEPT ![what] = @ + 1]

InitWarn ==
    /\ env \in { Env(TRUE, a, TRUE) : a \in BOOLEAN }
    /\ ACOUSTID_API_KEY \in KeyPool
    /\ tpc = [t \in Threads |-> "idle"]
    /\ tlocal = [t \in Threads |-> [calls |-> 0, api_key |-> None, found |-> None]]
    /\ default_key_warning_shown = FALSE
    /\ effects = NoEffects
    /\ lock = None /\ last_request = 0 /\ clock = 0 /\ stamps = <<>> /\ returns = <<>>
    /\ MainIdle
    /\ MatchIdle
    /\ MergeIdle
    /\ CallIdle

warnFixed == <<matchVars, mergeVars, runVars, callVars,
               lock, last_request, clock, stamps, returns>>

\* lines 214-218: the library test, the key read and the key test
LookupCall(t) ==
    /\ tpc[t] = "idle"
    /\ tlocal[t].calls < MaxCalls
    /\ IF ~env.acoustid_lib
       THEN /\ tlocal' = [tlocal EXCEPT ![t].found = None]
            /\ tpc' = [tpc EXCEPT ![t] = "return"]
       ELSE /\ tlocal' = [tlocal EXCEPT ![t].api_key = ACOUSTID_API_KEY, ![t].found = None]
            /\ tpc' = [tpc EXCEPT ![t] = IF Truthy(ACOUSTID_API_KEY) THEN "export" ELSE "no_key"]
    /\ UNCHANGED <<default_key_warning_shown, effects>>
    /\ UNCHANGED warnFixed

\* line 221: if not _default_key_warning_shown
LookupTestFlag(t) ==
    /\ tpc[t] = "no_key"
    /\ tpc' = [tpc EXCEPT ![t] = IF ~default_key_warning_shown THEN "warn" ELSE "return"]
    /\ UNCHANGED <<tlocal, default_key_warning_shown, effects>>
    /\ UNCHANGED warnFixed

\* lines 222-225: the warning is printed
LookupWarn(t) ==
    /\ tpc[t] = "warn"
    /\ effects' = Effect(effects, "warning")
    /\ tpc' = [tpc EXCEPT ![t] = "set_flag"]
    /\ UNCHANGED <<tlocal, default_key_warning_shown>>
    /\ UNCHANGED warnFixed

\* line 226: _default_key_warning_shown = True
LookupSetFlag(t) ==
    /\ tpc[t] = "set_flag"
    /\ default_key_warning_shown' = TRUE
    /\ tpc' = [tpc EXCEPT ![t] = "return"]
    /\ UNCHANGED <<tlocal, effects>>
    /\ UNCHANGED warnFixed

\* lines 232-233: the sample is exported to a temporary wav file
LookupExport(t) ==
    /\ tpc[t] = "export"
    /\ effects' = Effect(effects, "export")
    /\ tpc' = [tpc EXCEPT ![t] = "match"]
    /\ UNCHANGED <<tlocal, default_key_warning_shown>>
    /\ UNCHANGED warnFixed

\* lines 241-357: the web service is asked and its results are read
LookupMatch(t) ==
    /\ tpc[t] = "match"
    /\ effects' = Effect(effects, "request")
    /\ \E answer \in AcoustidAnswers :
          tlocal' = [tlocal EXCEPT ![t].found =
                        identify_with_acoustid(TRUE, tlocal[t].api_key, answer)]
    /\ tpc' = [tpc EXCEPT ![t] = "return"]
    /\ UNCHANGED default_key_warning_shown
    /\ UNCHANGED warnFixed

\* the call returns tlocal[t].found
LookupReturn(t) ==
    /\ tpc[t] = "return"
    /\ tlocal' = [tlocal EXCEPT ![t].calls = @ + 1]
    /\ tpc' = [tpc EXCEPT ![t] = "idle"]
    /\ UNCHANGED <<default_key_warning_shown, effects>>
    /\ UNCHANGED warnFixed

NextWarn ==
    \/ \E t \in Threads : LookupCall(t)
    \/ \E t \in Threads : LookupTestFlag(t)
    \/ \E t \in Threads : LookupWarn(t)
    \/ \E t \in Threads : LookupSetFlag(t)
    \/ \E t \in Threads : LookupExport(t)
    \/ \E t \in Threads : LookupMatch(t)
    \/ \E t \in Threads : LookupReturn(t)

SpecWarn == InitWarn /\ [][NextWarn]_vars

C14_NoKey == env.acoustid_lib /\ ~Truthy(ACOUSTID_API_KEY)

\* with no key, no call exports a sample or asks the web service, and every
\* call returns None
C14_NoKeyNoLookup ==
    C14_NoKey =>
        /\ effects.export = 0 /\ effects.request = 0
        /\ \A t \in Threads : tpc[t] = "return" => tlocal[t].found = None

C15_Rounded == round_half_even(Val(args).a.tempo_halves)

\* C15: whenever detect_bpm_librosa returns a result for a rounded raw tempo
\* r, its bpm is 2*r when r < 70, r halved (to the whole number below) when
\* r > 180 and r otherwise, the correction being applied once only, and the
\* bpm is positive.
C15_OctaveCorrectionOnce ==
    (Called("detect_bpm_librosa") /\ Val(ret) # None) =>
        LET r == C15_Rounded
            bpm == Val(Val(ret)).bpm
        IN  /\ r < 70 => bpm = 2 * r
            /\ r > 180 => bpm = r \div 2
            /\ (70 <= r /\ r <= 180) => bpm = r
            /\ bpm > 0

\* a tempo of 30 is returned as 60, which is below 70 still
C15_Witness ==
    /\ Called("detect_bpm_librosa")
    /\ C15_Rounded = 30
    /\ Val(ret) # None
    /\ Val(Val(ret)).bpm = 60

\* the names under which the backend whose artist and title went into the
\* merge may be recorded: ACRCloud when it matched, else Shazam when Shazam
\* answered (in dual mode: when Shazam won), else the open database
\* (AcoustID looks its fingerprints up in MusicBrainz)
C16_BackendNames ==
    IF acr_result # None THEN {"ACRCloud"}
    ELSE IF current_mode = Some(MODE_DUAL)
         THEN IF loc.winner_source = Some("Shazam") THEN {"Shazam"}
              ELSE {"AcoustID", "MusicBrainz"}
         ELSE IF loc.shazam_result # None THEN {"Shazam"}
              ELSE {"AcoustID", "MusicBrainz"}

\* C16: in every merged record the source recorded for the artist and for
\* the title, and the first entry of sources_used, name the backend that
\* returned the value; a value from Shazam is never recorded as ACRCloud's or
\* the open database's.
C16_SourceNamesBackend ==
    (merged # None /\ Truthy(Val(merged).artist.value) /\ Truthy(Val(merged).title.value)) =>
        /\ Val(Val(merged).artist.source)[1] \in C16_BackendNames
        /\ Val(Val(merged).title.source)[1] \in C16_BackendNames
        /\ Val(merged).sources_used # <<>>
        /\ Val(merged).sources_used[1] \in C16_BackendNames

C17_Configured(a, source) == source = "lastfm" => (a.lastfm_key # None /\ Val(a.lastfm_key) # <<>>)
C17_Succeeds(a, source) ==
    /\ a[source] \in {"success", "success_without_details"}
    /\ C17_Configured(a, source)

\* C17: get_all_external_metadata never raises; whatever the three sources'
\* outcomes, it returns a bundle with exactly the keys itunes, deezer and
\* lastfm, in which a source that failed, found nothing or has no key is
\* None, and a source that succeeded has its data whatever the others did.
C17_BundleNeverRaises ==
    Called("get_all_external_metadata") =>
        LET a == Val(args).a
            r == Val(ret)
        IN  /\ ~r.raised
            /\ r.value # None
            /\ DOMAIN Val(r.value) = {"itunes", "deezer", "lastfm"}
            /\ \A source \in {"itunes", "deezer", "lastfm"} :
                  Val(r.value)[source] # None <=> C17_Succeeds(a, source)
            /\ C17_Succeeds(a, "itunes") => Val(r.value).itunes = SomeItunes
            /\ a.deezer = "success" => Val(r.value).deezer = DeezerWithBpm
            /\ C17_Succeeds(a, "lastfm") => Val(r.value).lastfm = SomeLastfm

\* iTunes times out, Last.fm has no key and Deezer's data is in the bundle
C17_Witness ==
    /\ Called("get_all_external_metadata")
    /\ Val(args).a.itunes = "timeout"
    /\ Val(args).a.deezer = "success"
    /\ Val(args).a.lastfm_key = None
    /\ ~Val(ret).raised
    /\ Val(Val(ret).value).itunes = None
    /\ Val(Val(ret).value).deezer = DeezerWithBpm
    /\ Val(Val(ret).value).lastfm = None

\* ---------------------------------------------------------------------
\* RateLimiter.wait called by the worker threads on one shared instance
\* (SpecLimiter): mixsplitr_core.py 418-438.  Time is counted in ticks of
\* 0.4 s and passes between any two steps of any thread
\* ---------------------------------------------------------------------

\* RateLimiter(min_interval=1.2): three ticks
DELAY == 3
\* the time up to which the run is followed
MaxTime == 9

\* the sleep cut short by a tick
sleep_duration_short(delay, time_since_last) == delay - time_since_last - 1
\* line 437: time.sleep(self.delay - time_since_last)
sleep_duration(delay, time_since_last) == delay - time_since_last

\* __init__ sets last_request = 0, and time.time() is far above delay
InitLimiter ==
    /\ lock = None
    /\ last_request = 0
    /\ clock = DELAY
    /\ stamps = <<>>
    /\ returns = <<>>
    /\ tpc = [t \in Threads |-> "idle"]
    /\ tlocal = [t \in Threads |-> [calls |-> 0, wake |-> 0]]
    /\ default_key_warning_shown = FALSE
    /\ effects = None
    /\ MatchIdle
    /\ MergeIdle
    /\ RunIdle
    /\ CallIdle

limiterFixed == <<matchVars, mergeVars, runVars, callVars, default_key_warning_shown, effects>>

\* line 433: with self.lock, which blocks while another thread holds it
WaitAcquire(t) ==
    /\ tpc[t] = "idle"
    /\ tlocal[t].calls < MaxCalls
    /\ lock = None
    /\ lock' = Some(t)
    /\ tpc' = [tpc EXCEPT ![t] = "locked"]
    /\ UNCHANGED <<tlocal, last_request, clock, stamps, returns>>
    /\ UNCHANGED limiterFixed

\* lines 434-437: the time is read and, if the last request is too recent,
\* the thread goes to sleep for the rest of the delay
WaitCheck(t) ==
    /\ tpc[t] = "locked"
    /\ LET now == clock
           time_since_last == now - last_request
       IN  IF time_since_last < DELAY
           THEN /\ tlocal' = [tlocal EXCEPT ![t].wake =
                                 clock + sleep_duration(DELAY, time_since_last)]
                /\ tpc' = [tpc EXCEPT ![t] = "sleeping"]
           ELSE /\ tlocal' = tlocal
                /\ tpc' = [tpc EXCEPT ![t] = "stamp"]
    /\ UNCHANGED <<lock, last_request, clock, stamps, returns>>
    /\ UNCHANGED limiterFixed

\* time.sleep returns when the time asked for has passed, or later
WaitWake(t) ==
    /\ tpc[t] = "sleeping"
    /\ clock >= tlocal[t].wake
    /\ tlocal' = [tlocal EXCEPT ![t].wake = 0]
    /\ tpc' = [tpc EXCEPT ![t] = "stamp"]
    /\ UNCHANGED <<lock, last_request, clock, stamps, returns>>
    /\ UNCHANGED limiterFixed

\* line 438: self.last_request = time.time()
WaitStamp(t) ==
    /\ tpc[t] = "stamp"
    /\ last_request' = clock
    /\ stamps' = Append(stamps, [thread |-> t, time |-> clock])
    /\ tpc' = [tpc EXCEPT ![t] = "release"]
    /\ UNCHANGED <<tlocal, lock, clock, returns>>
    /\ UNCHANGED limiterFixed

\* the end of the with block: the lock is released
WaitRelease(t) ==
    /\ tpc[t] = "release"
    /\ lock' = None
    /\ tpc' = [tpc EXCEPT ![t] = "return"]
    /\ UNCHANGED <<tlocal, last_request, clock, stamps, returns>>
    /\ UNCHANGED limiterFixed

\* wait() returns to its caller
WaitReturn(t) ==
    /\ tpc[t] = "return"
    /\ returns' = Append(returns, [thread |-> t, time |-> clock])
    /\ tlocal' = [tlocal EXCEPT ![t].calls = @ + 1]
    /\ tpc' = [tpc EXCEPT ![t] = "idle"]
    /\ UNCHANGED <<lock, last_request, clock, stamps>>
    /\ UNCHANGED limiterFixed

\* time passes
Tick ==
    /\ clock < MaxTime
    /\ clock' = clock + 1
    /\ UNCHANGED <<tpc, tlocal, lock, last_request, stamps, returns>>
    /\ UNCHANGED limiterFixed

NextLimiter ==
    \/ \E t \in Threads : WaitAcquire(t)
    \/ \E t \in Threads : WaitCheck(t)
    \/ \E t \in Threads : WaitWake(t)
    \/ \E t \in Threads : WaitStamp(t)
    \/ \E t \in Threads : WaitRelease(t)
    \/ \E t \in Threads : WaitReturn(t)
    \/ Tick

SpecLimiter == InitLimiter /\ [][NextLimiter]_vars

C18_InsideGate == { t \in Threads : tpc[t] \in {"locked", "sleeping", "stamp", "release"} }
C18_Spaced(history) ==
    \A i \in 1..(Len(history) - 1) : history[i + 1].time - history[i].time >= DELAY

\* C18 as amended: on one RateLimiter shared by the threads, the times at
\* which successive calls of wait() pass the gate (the values written to
\* last_request) are at least delay apart, and at most one thread is inside
\* the gate at a time.
C18_PassagesSpaced ==
    /\ Cardinality(C18_InsideGate) <= 1
    /\ C18_InsideGate # {} => lock = Some(CHOOSE t \in C18_InsideGate : TRUE)
    /\ C18_Spaced(stamps)

\* a second thread had to sleep and passed exactly delay after the first
C18_Witness ==
    /\ Len(stamps) >= 2
    /\ stamps[1].thread # stamps[2].thread
    /\ stamps[2].time - stamps[1].time = DELAY
    /\ Len(returns) >= 2

\* C18: any two successive returns from wait() are at least delay apart, and
\* at most one thread is inside the gate at a time.
C18_ReturnsSpaced ==
    /\ Cardinality(C18_InsideGate) <= 1
    /\ C18_Spaced(returns)

\* C19: in MB-only mode an AcoustID lookup is issued only after the worker
\* has waited on the run's rate limiter.
C19_LookupWaitsOnLimiter ==
    ( /\ current_mode = Some(MODE_MB_ONLY)
      /\ Truthy(ACOUSTID_API_KEY)
      /\ calls.acoustid > 0 )
    => calls.wait > 0

C20_AcrMatched == loc.res # None /\ acr_matched(Val(loc.res))
C20_ShazamOff == config.disable_shazam \/ ~env.shazam_lib

\* C20: in ACRCloud mode ACRCloud is asked first; Shazam is asked only after
\* ACRCloud answered without a match; AcoustID is asked as a fallback only
\* after Shazam too found nothing, or is disabled or not installed.  When
\* ACRCloud matched, Shazam is never asked, and AcoustID's artist and title
\* never take the place of ACRCloud's in the merged record.
C20_FixedBackendOrder ==
    current_mode = Some(MODE_ACRCLOUD) =>
        /\ (calls.shazam > 0 \/ calls.acoustid > 0) => (calls.acrcloud > 0 /\ loc.res # None)
        /\ calls.shazam > 0 => ~C20_AcrMatched
        /\ (calls.acoustid > 0 /\ ~C20_AcrMatched) =>
              \/ calls.shazam > 0 /\ loc.shazam_result = None
              \/ calls.shazam = 0 /\ C20_ShazamOff
        /\ C20_AcrMatched => calls.shazam = 0
        /\ (C20_AcrMatched /\ merged # None) =>
              /\ Val(merged).artist.value = Val(loc.res).music[1].artist
              /\ Val(merged).title.value = Val(loc.res).music[1].title
              /\ Val(merged).artist.source = Some(<<"ACRCloud">>)

\* ACRCloud matched, the AcoustID cross-check answered with another artist
\* and title, and the merged record has ACRCloud's
C20_Witness ==
    /\ current_mode = Some(MODE_ACRCLOUD)
    /\ C20_AcrMatched
    /\ calls.acoustid > 0
    /\ mb_result # None
    /\ Val(mb_result).artist # Val(loc.res).music[1].artist
    /\ merged # None
    /\ Val(merged).agreement = "conflict"
    /\ Val(merged).artist.value = Val(loc.res).music[1].artist

\* the file's name without directory and extension
C21_Stem == splitext_root(basename(Val(args).a.original_file))
\* the name reads 'Artist - Title': an artist, a hyphen set off by spaces or
\* underscores, a title
C21_ArtistTitleForm ==
    \E i \in 2..(Len(C21_Stem) - 3) :
        /\ SubSeq(C21_Stem, i, i + 2) \in {<<" ", "-", " ">>, <<"_", "-", "_">>}
C21_Generic ==
    \E g \in GenericPrefixes : StartsWith(StrLower(Val(ret).query), g)

\* C21: the text search on the sanitized file name is attempted if and only
\* if the name has the form 'Artist - Title', the query is longer than 10
\* characters and it does not start with file, track, audio or recording.
C21_SearchIffArtistTitle ==
    Called("text_search") =>
        ( Val(ret).searched <=>
            /\ C21_ArtistTitleForm
            /\ Len(Val(ret).query) > 10
            /\ ~C21_Generic )

C22_LongChunk == chunk # None /\ Val(chunk) >= 10000
C22_Count(enabled) == IF enabled THEN 1 ELSE 0
\* every backend's call has been made
C22_AllCalled ==
    /\ calls.recognize = 1
    /\ calls.shazam = C22_Count(~config.disable_shazam /\ env.shazam_lib)
    /\ calls.acoustid = C22_Count(env.acoustid_lib)

C23_Contributors ==
    LET a0 == [genres |-> GetList(mb_enhanced, "genres"), source |-> None]
        a1 == AddOptGenre(a0, Get(Get(external_meta, "itunes"), "genre"), "iTunes")
        a2 == AddOptGenre(a1, Get(Get(external_meta, "deezer"), "genre"), "Deezer")
        a3 == AddTags(a2, GetList(Get(external_meta, "lastfm"), "tags"))
    IN  BoolInt(Unique(a0.genres, <<>>) # <<>>) + BoolInt(a1.genres # a0.genres)
        + BoolInt(a2.genres # a1.genres) + BoolInt(a3.genres # a2.genres)

C23_HasPlus == Len(Val(Result.genres.source)) = 2

\* C23: the source of the genres field ends in '+' exactly when more than
\* one source contributed a genre and the deduplicated list has more than
\* one genre; genres that all come from one source carry its plain name.
C23_PlusIffSeveralContributors ==
    (merged # None /\ Result.genres.value # <<>>) =>
        (C23_HasPlus <=> (C23_Contributors > 1 /\ Len(Unique(C7_Offered, <<>>)) > 1))

C24_DeezerBpm == Get(Get(external_meta, "deezer"), "bpm")

\* C24: the estimator has run by the time of the merge only if local BPM is
\* enabled and Deezer gave no BPM; in the merged record a positive Deezer BPM
\* is the value, with source 'Deezer', and a value of source 'librosa' is the
\* chunk's estimate with its own confidence, present only without a Deezer BPM.
C24_DeezerBpmWins ==
    /\ (pc \in {"merge", "dual_merge"} /\ calls.bpm > 0) =>
            (~config.disable_local_bpm /\ ~deezer_has_bpm(external_meta))
    /\ (merged # None /\ external_meta # None) =>
        /\ (C24_DeezerBpm # None /\ Val(C24_DeezerBpm) > 0) =>
                (Result.bpm.value = C24_DeezerBpm /\ Result.bpm.source = Some(<<"Deezer">>))
        /\ Result.bpm.source = Some(<<"librosa">>) =>
                /\ ~deezer_has_bpm(external_meta)
                /\ ~config.disable_local_bpm
                /\ chunk_tempo # None
                /\ Result.bpm.value = Some(Val(chunk_tempo).bpm)
                /\ Result.bpm.confidence = Some(Val(chunk_tempo).confidence)

\* local BPM is enabled and the chunk has a tempo, Deezer gave 128: the
\* estimator stayed idle and the record carries Deezer's value
C24_Witness ==
    /\ merged # None /\ external_meta # None
    /\ ~config.disable_local_bpm /\ chunk_tempo # None
    /\ C24_DeezerBpm = Some(128)
    /\ calls.bpm = 0
    /\ Result.bpm.value = Some(128) /\ Result.bpm.source = Some(<<"Deezer">>)

\* C25: when the processing call of a track has ended, by returning or by
\* raising, no sample file exported for a backend is left on disk.
C25_NoSampleLeft ==
    pc \in {"returned", "raised"} => files = {}

-----------------------------------------------------------------------------
(* The duplicate test of the workers, run by the threads of one pool on    *)
(* the shared existing_tracks: mixsplitr_processing.py 240-277, 480-521    *)
(* and 718-723. Each thread holds one track whose merge gave a file name.  *)

TrackNames == {<<"A - 1.flac">>, <<"B - 2.flac">>}

InitDedup ==
    /\ current_mode \in {Some(MODE_ACRCLOUD), Some(MODE_MB_ONLY), Some(MODE_DUAL)}
    /\ existing_tracks \in {scan_existing_library({}), scan_existing_library({<<"A - 1.flac">>})}
    /\ tpc = [t \in Threads |-> "check"]
    /\ tlocal \in [Threads -> {[expected_filename |-> n] : n \in TrackNames}]
    /\ returns = <<>>
    /\ lock = None /\ last_request = 0 /\ clock = 0 /\ stamps = <<>>
    /\ default_key_warning_shown = FALSE /\ effects = None
    /\ config = None /\ env = None /\ pc = "idle" /\ recognizer = None
    /\ ACOUSTID_API_KEY = None /\ chunk = None /\ loc = None /\ calls = None
    /\ files = {} /\ result = None /\ exc = None /\ chunk_tempo = None
    /\ MatchIdle
    /\ MergeIdle
    /\ CallIdle

dedupFixed == <<matchVars, mergeVars, callVars, config, env, pc, current_mode, recognizer,
                ACOUSTID_API_KEY, chunk, loc, calls, files, result, exc, chunk_tempo,
                tlocal, default_key_warning_shown, effects, lock, last_request, clock, stamps>>

Returned(t, status) ==
    [thread |-> t, status |-> status, expected_filename |-> tlocal[t].expected_filename]

\* with existing_tracks_lock: if expected_filename in existing_tracks: return
\* skipped. Lines 241-249 and 486-496 leave the lock without adding the
\* name; lines 718-722 add it under the same hold.
DedupCheck(t) ==
    /\ tpc[t] = "check"
    /\ IF tlocal[t].expected_filename \in existing_tracks.items
       THEN /\ returns' = Append(returns, Returned(t, "skipped"))
            /\ tpc' = [tpc EXCEPT ![t] = "done"]
            /\ existing_tracks' = existing_tracks
       ELSE /\ returns' = returns
            /\ tpc' = [tpc EXCEPT ![t] = "build"]
            /\ existing_tracks' =
                  IF current_mode = Some(MODE_DUAL)
                  THEN [existing_tracks EXCEPT !.items = @ \cup {tlocal[t].expected_filename}]
                  ELSE existing_tracks
    /\ UNCHANGED dedupFixed

\* the result dict and the temp_flac export: lines 251-272, 498-516, 724-756
DedupBuild(t) ==
    /\ tpc[t] = "build"
    /\ tpc' = [tpc EXCEPT ![t] = IF current_mode = Some(MODE_DUAL) THEN "return" ELSE "add"]
    /\ UNCHANGED <<existing_tracks, returns>>
    /\ UNCHANGED dedupFixed

\* with existing_tracks_lock: existing_tracks.add(expected_filename):
\* lines 274-275 and 518-519
DedupAdd(t) ==
    /\ tpc[t] = "add"
    /\ existing_tracks' = [existing_tracks EXCEPT !.items = @ \cup {tlocal[t].expected_filename}]
    /\ tpc' = [tpc EXCEPT ![t] = "return"]
    /\ UNCHANGED returns
    /\ UNCHANGED dedupFixed

\* return result: lines 277, 521, 758
DedupReturn(t) ==
    /\ tpc[t] = "return"
    /\ returns' = Append(returns, Returned(t, "identified"))
    /\ tpc' = [tpc EXCEPT ![t] = "done"]
    /\ UNCHANGED existing_tracks
    /\ UNCHANGED dedupFixed

NextDedup ==
    \/ \E t \in Threads : DedupCheck(t)
    \/ \E t \in Threads : DedupBuild(t)
    \/ \E t \in Threads : DedupAdd(t)
    \/ \E t \in Threads : DedupReturn(t)

SpecDedup == InitDedup /\ [][NextDedup]_vars

\* C26: whatever the interleaving of the workers of one run, in ACRCloud,
\* MusicBrainz-only and dual mode, no two tracks are both returned as
\* identified with the same expected file name.
C26_OneIdentifiedPerName ==
    \A i, j \in 1..Len(returns) :
        (i # j /\ returns[i].status = "identified" /\ returns[j].status = "identified")
            => returns[i].expected_filename # returns[j].expected_filename

\* C27: in a batch that main runs in dual mode, for a chunk of at least 10
\* seconds, the ACRCloud service has been queried through a constructed
\* recognizer by the time the winner is picked.
C27_DualQueriesAcrcloud ==
    (/\ current_mode = Some(MODE_DUAL)
     /\ chunk # None /\ Val(chunk) >= MIN_CHUNK_MS
     /\ pc \in {"dual_pick", "returned"}) =>
        (recognizer # None /\ calls.acrcloud = 1)

-----------------------------------------------------------------------------
(* The main menu between the validation of the mode and the processing:    *)
(* mixsplitr.py 1608-1674, with the settings entry of the menu             *)

\* the modes show_mode_switch_menu offers: mixsplitr_menus.py 383-401, 802
OfferedModes(cfg, sdk) ==
    LET has_acr == Truthy(cfg.host) /\ Truthy(cfg.access_key)
        has_acoustid == Truthy(cfg.acoustid_api_key)
    IN  {MODE_MB_ONLY}
        \cup (IF sdk THEN {MODE_ACRCLOUD} ELSE {})
        \cup (IF has_acr /\ has_acoustid THEN {MODE_DUAL} ELSE {})

\* choice == "api_keys": one visit of the settings menu, in which the
\* operator changes nothing, switches the mode, removes or adds the AcoustID
\* key or updates the ACRCloud credentials (mixsplitr_menus.py 806-807,
\* 909-911, 1078-1080, 1012-1029), and then lines 1032-1033 of mixsplitr.py:
\* state.config = get_config(); state.current_mode = config.get('mode', ...)
MenuApiKeys ==
    /\ pc = "setup"
    /\ \E edit \in {"back", "switch_mode", "acoustid_remove", "acoustid_add", "acr_update"},
          new_mode \in Modes :
          LET edited ==
                CASE edit = "switch_mode" /\ new_mode \in OfferedModes(config, env.acrcloud_sdk) ->
                        [config EXCEPT !.mode = Some(new_mode)]
                  [] edit = "acoustid_remove" /\ Truthy(config.acoustid_api_key) ->
                        [config EXCEPT !.acoustid_api_key = None]
                  [] edit = "acoustid_add" -> [config EXCEPT !.acoustid_api_key = SomeKey]
                  [] edit = "acr_update" -> [config EXCEPT !.host = SomeHost, !.access_key = SomeKey]
                  [] OTHER -> config
              reread == backfill_mode(edited)
          IN  /\ config' = reread
              /\ current_mode' = IF reread.mode = None THEN Some(MODE_ACRCLOUD) ELSE reread.mode
              /\ ACOUSTID_API_KEY' =
                    IF edit = "acoustid_remove" /\ Truthy(config.acoustid_api_key) THEN None
                    ELSE IF edit = "acoustid_add" THEN SomeKey
                    ELSE ACOUSTID_API_KEY
    /\ pc' = "setup"
    /\ UNCHANGED <<env, recognizer, existing_tracks>>
    /\ UNCHANGED mainOnly
    /\ UNCHANGED matchVars

NextMenu ==
    \/ MainGetConfig
    \/ MainResolveMode
    \/ MainValidate
    \/ MenuApiKeys
    \/ MainSetup
    \/ MainDispatch

SpecMenu == InitRun /\ [][NextMenu]_vars

\* C28: whatever the operator did in the main menu, the settings menu
\* included, the mode main dispatches the batch with is the mode get_mode
\* resolves from the configuration as it then stands.
C28_DispatchModeResolved ==
    pc = "dispatch" => current_mode = Some(get_mode(config))

-----------------------------------------------------------------------------
(* process_single_track_dual on its own, for one chunk, with the           *)
(* recognizer its caller hands over: None, as main does (mixsplitr.py      *)
(* 1716-1718, 1875), or a constructed ACRCloudRecognizer                   *)

InitDual ==
    /\ config \in {Config(SomeHost, SomeKey, SomeKey, Some(MODE_DUAL), ds) : ds \in BOOLEAN}
    /\ env \in {Env(TRUE, o, s) : o \in BOOLEAN, s \in BOOLEAN}
    /\ current_mode = Some(MODE_DUAL)
    /\ recognizer \in {None, Some("ACRCloudRecognizer")}
    /\ ACOUSTID_API_KEY = SomeKey
    /\ existing_tracks \in {scan_existing_library(library) : library \in LibraryPool}
    /\ chunk \in ChunkPool
    /\ chunk_tempo \in BpmAnswers
    /\ pc = "dual"
    /\ loc = NoLocals
    /\ calls = NoCalls
    /\ files = {}
    /\ result = None
    /\ exc = None
    /\ acr_result = None /\ mb_result = None /\ mb_enhanced = None
    /\ external_meta = None /\ withheld = None /\ merged = None /\ mpc = "idle"
    /\ MatchIdle
    /\ CallIdle
    /\ ThreadsIdle

NextDual ==
    \/ DualStart \/ DualExportSample \/ DualRateLimit \/ DualRecognize \/ DualShazam
    \/ DualAcoustid \/ DualPickWinner \/ DualEnhance \/ DualEnrich \/ DualDetectBpm
    \/ DualMerge \/ DualIdentified \/ DualUnidentified

SpecDual == InitDual /\ [][NextDual]_vars

\* the backends whose answers went into the merge of the dual worker: the
\* ACRCloud answer if it was passed as the primary guess, and the backend
\* of the winner, passed as the secondary guess
C29_BackendsMerged ==
    (IF acr_result # None THEN {"ACRCloud"} ELSE {})
    \cup (IF mb_result # None THEN {Val(loc.winner_source)} ELSE {})

C30_BpmDetectedOnce ==
    current_mode \in {Some(MODE_ACRCLOUD), Some(MODE_MB_ONLY)} => calls.bpm <= 1

====
